---- MODULE Spec2Model ----
(***************************************************************************)
(* Wallet service: idempotent transfers between wallets.                   *)
(*                                                                         *)
(* The model follows wallet-service/src/services/transfer.service.ts step  *)
(* by step: every await of TransferService.transfer, validateTransfer and  *)
(* processTransfer is one action of a process, so that concurrent calls    *)
(* interleave exactly where the event loop (or another service instance)   *)
(* can interleave them.  The relational store is modelled by its committed *)
(* state (wallet rows, transaction_logs rows), FOR UPDATE row locks and    *)
(* the snapshot rule of SERIALIZABLE transactions; the cache by the set of *)
(* lock keys that currently exist.                                         *)
(*                                                                         *)
(* Money is counted in thousandths of a currency unit ("mills"), so that   *)
(* the DECIMAL(20,2) columns, which keep whole cents (multiples of 10      *)
(* mills), can be told apart from the request amount, which is a float     *)
(* with any number of decimals.                                            *)
(***************************************************************************)
EXTENDS Integers, Sequences, FiniteSets, TLC

\* ------------------------------------------------------------------ bounds
\* Total number of transfer calls started in one behaviour.
MaxCalls == 2

\* Total number of events of the environment in one behaviour: store or
\* cache errors, crashes, lock keys reaching their time to live.
MaxFaults == 1

\* Total number of calls of calculateInterestForAccount that clients make in
\* one behaviour.
MaxInterestCalls == 3

\* ------------------------------------------------------------- the world
\* Concurrent callers: requests in flight on one instance of the service
\* (they share its TransferService and so its RedisService).
Procs == {"p1", "p2"}

\* Idempotency keys clients may send.
Keys == {"k1", "k2"}

\* Values generateReference may produce.
Refs == {"r1", "r2", "r3", "r4"}

\* Wallet ids clients may name; only ExistingWallets are rows of `wallets`.
WalletIds == {1, 2, 3, 4}
ExistingWallets == {1, 2, 3}

\* Amounts clients may send, in mills.  The balance columns keep whole cents,
\* so 15 (0.015) is an amount with half a cent; 5 (0.005) is below the
\* smallest amount a log row accepts.
GoodAmounts == {15, 20}
BadAmounts == {0, 5}

NoProc == "none"
NoRequest == [sourceWalletId |-> 0, destinationWalletId |-> 0, amount |-> 0,
              idempotencyKey |-> "none"]
NoResult == [kind |-> "none"]

\* No call of connect, get, set, delete or disconnect is pending on the
\* RedisService.  A pending call waits for the answer of connect() (at
\* "connect") or of its own command (at "command").
NoCall == [op |-> "none", key |-> "", at |-> "none"]

\* A fresh RedisService: this.client is null.  The client is "connecting"
\* from createClient to the answer of connect(), then "open"; "closing" from
\* quit() to its answer; "closed" when connect() or quit() was rejected
\* (this.client keeps the client).  The service is a private field of
\* TransferService, which only calls acquireLock and releaseLock on it.
NoRedis == [state |-> "null", call |-> NoCall]

\* Requests: every good amount from wallet 1 to wallet 2 under one key and a
\* whole-cent amount from wallet 1 to wallet 2 under the other key, two
\* transfers in the opposite direction (of 0.02, more than wallet 2 has at the
\* start, and of 0.01, which it can pay), and one request for each way the
\* amount or the wallets can be wrong.
Request(s, d, a, k) ==
    [sourceWalletId |-> s, destinationWalletId |-> d, amount |-> a, idempotencyKey |-> k]
Requests ==
    {Request(1, 2, a, "k1") : a \in GoodAmounts}
    \cup {Request(1, 2, 20, "k2")}
    \cup {Request(2, 1, 20, "k2"), Request(2, 1, 10, "k1")}
    \cup {Request(1, 2, a, "k1") : a \in BadAmounts}
    \cup {Request(w[1], w[2], 20, "k2") :
             w \in {<<1, 1>>, <<3, 2>>, <<1, 3>>, <<4, 2>>, <<1, 4>>}}

\* ---------------------------------------------------------------- state
VARIABLES
    balance,     \* wallets.balance of every wallet row (committed), in mills
    isActive,    \* wallets.is_active of every wallet row
    logs,        \* transaction_logs rows (committed), in creation order
    lockState,   \* the lock keys that exist in the cache
    rowLock,     \* FOR UPDATE holder of every wallet row
    pc,          \* where each caller is in transfer()
    req,         \* the request each caller is serving
    result,      \* what the caller's last call returned or threw
    srcRead,     \* validateTransfer: the source balance it read
    myLog,       \* transfer: id of the log row this call created (0: none)
    txBal,       \* processTransfer: wallet instances loaded in the transaction
    txDone,      \* processTransfer: COMPLETED written inside the transaction
    stale,       \* wallets committed by others since the caller's snapshot
    err,         \* message of the error being propagated
    calls,       \* calls started so far
    faults,      \* events of the environment so far
    responses,   \* history: every response returned, with its key
    debits,      \* history: committed debits per idempotency key
    redis,       \* the RedisService of the transfer service: its client
    currency     \* wallets.currency of every wallet row

\* The wallet service.
tvars == <<balance, isActive, logs, lockState, rowLock, pc, req, result, srcRead,
           myLog, txBal, txDone, stale, err, calls, faults, responses, debits, redis,
           currency>>

\* The interest service (its own store: accounts and interest_logs).
VARIABLES
    accounts,       \* accounts rows (committed)
    interestLogs,   \* interest_logs rows (committed), in creation order
    job,            \* each worker's call of calculateInterestForAccount
    accountLock,    \* holder of the row lock of every accounts row
    interestCalls,  \* calls of calculateInterestForAccount started so far
    batch           \* the call of calculateInterestForAllAccounts

ivars == <<accounts, interestLogs, job, accountLock, interestCalls, batch>>

vars == <<tvars, ivars>>

\* ------------------------------------------------------------- constants
PENDING == "PENDING"
COMPLETED == "COMPLETED"
FAILED == "FAILED"
REVERSED == "REVERSED"

ErrConnect == "connect ECONNREFUSED 127.0.0.1:6379"
ErrBusy == "Another process is handling this transaction. Please retry."
ErrSameWallet == "Cannot transfer to the same wallet"
ErrAmount == "Transfer amount must be greater than zero"
ErrSourceNotFound == "Source wallet not found"
ErrSourceInactive == "Source wallet is inactive"
ErrDestinationNotFound == "Destination wallet not found"
ErrDestinationInactive == "Destination wallet is inactive"
ErrInsufficient == "Insufficient balance"
ErrInsufficientAtProcessing == "Insufficient balance at processing time"
ErrValidationMin == "Validation min on amount failed"
ErrBalanceMin == "Validation min on balance failed"
ErrUnique == "Validation error: unique constraint"
ErrSerialize == "could not serialize access due to concurrent update"
ErrStorage == "storage fault"
ErrFinished == "Transaction cannot be rolled back because it has been finished"

ValidationErrors == {ErrSameWallet, ErrAmount, ErrSourceNotFound, ErrSourceInactive,
                     ErrDestinationNotFound, ErrDestinationInactive, ErrInsufficient}

InitialBalance == [w \in ExistingWallets |-> IF w = 1 THEN 30 ELSE 10]
InitialActive == [w \in ExistingWallets |-> w # 3]

\* The default of Wallet.currency.
InitialCurrency == [w \in ExistingWallets |-> "NGN"]

\* ----------------------------------------------------------- pure helpers
\* A DECIMAL(20,2) column keeps two decimals: the store rounds what it is
\* given to whole cents, half away from zero.
RoundCents(x) ==
    IF x >= 0 THEN ((x + 5) \div 10) * 10 ELSE 0 - (((0 - x) + 5) \div 10) * 10

RECURSIVE SumOver(_, _)
SumOver(f, S) ==
    IF S = {} THEN 0
    ELSE LET x == CHOOSE y \in S : TRUE IN f[x] + SumOver(f, S \ {x})

TotalBalance == SumOver(balance, ExistingWallets)

LogIds == 1..Len(logs)

\* Mutant of checkExistingTransaction: the lookup only finds rows that are
\* still PENDING.
checkExistingTransactionPendingOnly(k) ==
    IF \E i \in LogIds : logs[i].idempotencyKey = k /\ logs[i].status = PENDING
    THEN CHOOSE i \in LogIds : logs[i].idempotencyKey = k /\ logs[i].status = PENDING
    ELSE 0

\* Mutant of checkExistingTransaction: the lookup only finds rows that are
\* COMPLETED.
checkExistingTransactionCompletedOnly(k) ==
    IF \E i \in LogIds : logs[i].idempotencyKey = k /\ logs[i].status = COMPLETED
    THEN CHOOSE i \in LogIds : logs[i].idempotencyKey = k /\ logs[i].status = COMPLETED
    ELSE 0

\* TransactionLog.findOne({ where: { idempotencyKey } }): id of the row, 0 if none.
checkExistingTransaction(k) ==
    IF \E i \in LogIds : logs[i].idempotencyKey = k
    THEN CHOOSE i \in LogIds :
            /\ logs[i].idempotencyKey = k
            /\ \A j \in LogIds : logs[j].idempotencyKey = k => i <= j
    ELSE 0

\* getTransactionByIdempotencyKey: TransactionLog.findOne({ where:
\* { idempotencyKey } }), a read; id of the row, 0 for null.
getTransactionByIdempotencyKey(idempotencyKey) ==
    IF \E i \in LogIds : logs[i].idempotencyKey = idempotencyKey
    THEN CHOOSE i \in LogIds :
            /\ logs[i].idempotencyKey = idempotencyKey
            /\ \A j \in LogIds : logs[j].idempotencyKey = idempotencyKey => i <= j
    ELSE 0

\* Mutant of getTransactionByReference: the where clause names the
\* idempotencyKey column.
getTransactionByReferenceWrongColumn(reference) ==
    getTransactionByIdempotencyKey(reference)

\* getTransactionByReference: TransactionLog.findOne({ where: { reference } }),
\* a read; id of the row, 0 for null.
getTransactionByReference(reference) ==
    IF \E i \in LogIds : logs[i].reference = reference
    THEN CHOOSE i \in LogIds :
            /\ logs[i].reference = reference
            /\ \A j \in LogIds : logs[j].reference = reference => i <= j
    ELSE 0

\* Mutant of Response: the status of the response is the constant COMPLETED.
ResponseAlwaysCompleted(i, msg) ==
    [kind |-> "ok", transactionId |-> i, status |-> COMPLETED,
     reference |-> logs[i].reference, message |-> msg]

\* The response built from a log row (steps 1, 3 and 7).
Response(i, msg) ==
    [kind |-> "ok", transactionId |-> i, status |-> logs[i].status,
     reference |-> logs[i].reference, message |-> msg]

Failure(msg) == [kind |-> "error", message |-> msg]

\* What the client sees of a call of transfer(): TransferController.transfer
\* answers 200 with the result; whatever transfer() throws goes to
\* next(error) and the global error handler answers 500 with the message.
HttpStatus(res) == IF res.kind = "ok" THEN 200 ELSE 500

\* Mutant of SortedWalletIds: the source is locked first, then the destination.
SortedWalletIdsSourceFirst(r) == <<r.sourceWalletId, r.destinationWalletId>>

\* [sourceWalletId, destinationWalletId].sort()
SortedWalletIds(r) ==
    IF r.sourceWalletId <= r.destinationWalletId
    THEN <<r.sourceWalletId, r.destinationWalletId>>
    ELSE <<r.destinationWalletId, r.sourceWalletId>>

\* ------------------------------------------- the interest service: world
\* Concurrent callers of calculateInterestForAccount.
Workers == {"w1", "w2"}

\* Account ids callers may name; account 3 is no row of `accounts`.
AccountIds == {1, 2, 3}
ExistingAccounts == {1, 2}

\* Calculation dates, written year * 1000 + day of the year: the first of
\* March of 1900, 2000, 2023 and 2024.
Dates == {1900060, 2000060, 2023060, 2024061}

\* The default of Account.interestRate, in thousandths: 27.5 per cent.
InterestRatePerMille == 275

\* The rate of an account that was opened with its own rate: 15.0 per cent.
CustomRatePerMille == 150

\* Amounts of the interest service are counted in units of the tenth decimal
\* (the scale of the DECIMAL(30, 10) columns and of toFixed(10)).
InitialAccounts ==
    [a \in ExistingAccounts |->
        [balance |-> 73200, totalInterestEarned |-> 0, lastInterestDate |-> 0,
         interestRate |-> IF a = 1 THEN InterestRatePerMille ELSE CustomRatePerMille,
         isActive |-> a = 1]]

NoWorker == "none"
NoJob == [pc |-> "idle", accountId |-> 0, calculationDate |-> 0, balance |-> 0,
          interestRate |-> 0,
          totalInterestEarned |-> 0, daysInYear |-> 0, dailyInterest |-> 0,
          stale |-> FALSE, error |-> ""]

ErrAccountNotFound == "Account not found"
ErrAccountInactive == "Account is inactive"
ErrAlreadyCalculated == "Interest already calculated"

\* No call of calculateInterestForAllAccounts yet: the accounts findAll gave
\* and that are still to do, the accounts attempted so far, the results and
\* the errors collected, by account.
NoBatch == [pc |-> "idle", calculationDate |-> 0, found |-> <<>>, todo |-> <<>>,
            attempted |-> <<>>, results |-> <<>>, errors |-> <<>>]

NoTxBal == [w \in WalletIds |-> -1]

Init ==
    /\ balance = InitialBalance
    /\ isActive = InitialActive
    /\ logs = <<>>
    /\ lockState = {}
    /\ rowLock = [w \in ExistingWallets |-> NoProc]
    /\ pc = [p \in Procs |-> "idle"]
    /\ req = [p \in Procs |-> NoRequest]
    /\ result = [p \in Procs |-> NoResult]
    /\ srcRead = [p \in Procs |-> -1]
    /\ myLog = [p \in Procs |-> 0]
    /\ txBal = [p \in Procs |-> NoTxBal]
    /\ txDone = [p \in Procs |-> FALSE]
    /\ stale = [p \in Procs |-> {}]
    /\ err = [p \in Procs |-> ""]
    /\ calls = 0
    /\ faults = 0
    /\ responses = {}
    /\ debits = [k \in Keys |-> 0]
    /\ redis = NoRedis
    /\ currency = InitialCurrency
    /\ accounts = InitialAccounts
    /\ interestLogs = <<>>
    /\ job = [w \in Workers |-> NoJob]
    /\ accountLock = [a \in ExistingAccounts |-> NoWorker]
    /\ interestCalls = 0
    /\ batch = NoBatch


\* ----------------------------------------------------- leaving transfer()
\* The call returns or throws before the try block: no lock to release.
Leave(p, res) ==
    /\ pc' = [pc EXCEPT ![p] = "done"]
    /\ result' = [result EXCEPT ![p] = res]
    /\ req' = [req EXCEPT ![p] = NoRequest]
    /\ responses' = IF res.kind = "ok"
                    THEN responses \cup {[key |-> req[p].idempotencyKey,
                                          transactionId |-> res.transactionId,
                                          status |-> res.status,
                                          reference |-> res.reference,
                                          message |-> res.message]}
                    ELSE responses

\* The client of the service takes a command: it is open, or connecting (the
\* command waits for the answer of connect()).  Without a client releaseLock
\* returns at once; on a closed client the command is rejected at once.
Sends == redis.state \in {"connecting", "open"}

\* The commands that were sent are being answered: the client is open, or
\* it is closing and connected (what was sent before QUIT is answered before
\* it).
Answers == redis.state = "open" \/ (redis.state = "closing" /\ redis.call.at = "command")

\* client.del(key), answered: the key is gone, whoever set it.
del(key) == lockState \ {key}

\* RedisService.releaseLock: nothing without a client, nothing when the DEL
\* is rejected (the error is caught); otherwise DEL key.
releaseLock(key) == IF Sends THEN del(key) ELSE lockState

\* A return or throw inside the try block: the finally block calls
\* releaseLock.  When the DEL is sent the call waits for its answer;
\* otherwise releaseLock is over at once and the call returns or throws.
ToFinally(p, res) ==
    IF Sends
    THEN /\ pc' = [pc EXCEPT ![p] = "release"]
         /\ result' = [result EXCEPT ![p] = res]
         /\ UNCHANGED <<lockState, req, responses, srcRead, myLog, err>>
    ELSE /\ lockState' = releaseLock(req[p].idempotencyKey)
         /\ Leave(p, res)
         /\ srcRead' = [srcRead EXCEPT ![p] = -1]
         /\ myLog' = [myLog EXCEPT ![p] = 0]
         /\ err' = [err EXCEPT ![p] = ""]

\* The locals of a call, reset when processTransfer is over.
ClearTx(p) ==
    /\ txBal' = [txBal EXCEPT ![p] = NoTxBal]
    /\ txDone' = [txDone EXCEPT ![p] = FALSE]
    /\ stale' = [stale EXCEPT ![p] = {}]

\* Row locks end with the transaction that took them.
ReleaseRows(p) == [w \in ExistingWallets |-> IF rowLock[w] = p THEN NoProc ELSE rowLock[w]]

\* ------------------------------------------------------------ transfer()
\* A client calls transfer(request).
Call(p, r) ==
    /\ pc[p] \in {"idle", "done"}
    /\ calls < MaxCalls
    /\ calls' = calls + 1
    /\ pc' = [pc EXCEPT ![p] = "check1"]
    /\ req' = [req EXCEPT ![p] = r]
    /\ result' = [result EXCEPT ![p] = NoResult]
    /\ UNCHANGED <<balance, isActive, logs, lockState, rowLock, srcRead, myLog, txBal,
                   txDone, stale, err, responses, debits, faults>>
    /\ UNCHANGED <<ivars, redis, currency>>

\* Step 1: an existing log for the key is returned verbatim.  Without one
\* the call goes on into acquireLock, up to its first await: connect() on a
\* service without a client (this.client is assigned before the await), the
\* SET on a client that takes commands; on a closed client the SET is
\* rejected at once, acquireLock answers false and the call throws.
Step1(p) ==
    /\ pc[p] = "check1"
    /\ LET existingTransaction == checkExistingTransaction(req[p].idempotencyKey) IN
       IF existingTransaction # 0
       THEN /\ Leave(p, Response(existingTransaction, "Transaction already processed"))
            /\ UNCHANGED redis
       ELSE IF redis.state = "null"
       THEN /\ redis' = [redis EXCEPT !.state = "connecting"]
            /\ pc' = [pc EXCEPT ![p] = "connect"]
            /\ UNCHANGED <<req, result, responses>>
       ELSE IF Sends
       THEN /\ pc' = [pc EXCEPT ![p] = "acquire"]
            /\ UNCHANGED <<req, result, responses, redis>>
       ELSE /\ Leave(p, Failure(ErrBusy))
            /\ UNCHANGED redis
    /\ UNCHANGED <<balance, isActive, logs, lockState, rowLock, srcRead, myLog, txBal,
                   txDone, stale, err, calls, debits, faults>>
    /\ UNCHANGED <<ivars, currency>>

\* RedisService.acquireLock: SET key '1' NX PX ttl answers OK only if the key
\* did not exist.
acquireLock(key) == key \notin lockState

\* Mutant of AcquireLock: a blocking lock, the call waits until the key is
\* free.
AcquireLockWaits(p) ==
    /\ pc[p] = "acquire"
    /\ Answers
    /\ acquireLock(req[p].idempotencyKey)
    /\ lockState' = lockState \cup {req[p].idempotencyKey}
    /\ pc' = [pc EXCEPT ![p] = "check2"]
    /\ UNCHANGED <<balance, isActive, logs, rowLock, req, result, srcRead, myLog, txBal,
                   txDone, stale, err, calls, responses, debits, faults>>
    /\ UNCHANGED <<ivars, redis, currency>>

\* Step 2: the SET is answered by the cache (on a client still connecting
\* it waits for the answer of connect()): the lock is taken, or the call
\* throws (outside the try block).
AcquireLock(p) ==
    /\ pc[p] = "acquire"
    /\ Answers
    /\ IF acquireLock(req[p].idempotencyKey)
       THEN /\ lockState' = lockState \cup {req[p].idempotencyKey}
            /\ pc' = [pc EXCEPT ![p] = "check2"]
            /\ UNCHANGED <<req, result, responses>>
       ELSE /\ Leave(p, Failure(ErrBusy))
            /\ UNCHANGED lockState
    /\ UNCHANGED <<balance, isActive, logs, rowLock, srcRead, myLog, txBal, txDone,
                   stale, err, calls, debits, faults>>
    /\ UNCHANGED <<ivars, redis, currency>>

\* connect() is answered: the client is open and acquireLock sends the SET.
\* When quit() was called meanwhile the client takes no command: the SET is
\* rejected at once, acquireLock answers false and the call throws.
Connect(p) ==
    /\ pc[p] = "connect"
    /\ IF redis.state = "closing"
       THEN /\ redis' = [redis EXCEPT !.call.at = "command"]
            /\ Leave(p, Failure(ErrBusy))
       ELSE /\ redis' = [redis EXCEPT !.state = "open"]
            /\ pc' = [pc EXCEPT ![p] = "acquire"]
            /\ UNCHANGED <<req, result, responses>>
    /\ UNCHANGED <<balance, isActive, logs, lockState, rowLock, srcRead,
                   myLog, txBal, txDone, stale, err, calls, debits, faults>>
    /\ UNCHANGED <<ivars, currency>>

\* connect() is rejected: it throws the connection error before the try
\* block of acquireLock, which leaves transfer() before its own try block.
\* this.client keeps the client that never connected.
AcquireLockConnectFails(p) ==
    /\ faults < MaxFaults
    /\ faults' = faults + 1
    /\ pc[p] = "connect"
    /\ redis' = [redis EXCEPT !.state = "closed"]
    /\ Leave(p, Failure(ErrConnect))
    /\ UNCHANGED <<balance, isActive, logs, lockState, rowLock, srcRead, myLog, txBal,
                   txDone, stale, err, calls, debits>>
    /\ UNCHANGED <<ivars, currency>>

\* The SET is rejected: the cache fails it, or the connect() it waited for
\* (or a quit()) was rejected and the client is closed.
\* acquireLock catches the error and answers false: the same throw.
AcquireLockUnavailable(p) ==
    /\ pc[p] = "acquire"
    /\ IF redis.state = "closed"
       THEN UNCHANGED faults
       ELSE /\ Answers
            /\ faults < MaxFaults
            /\ faults' = faults + 1
    /\ Leave(p, Failure(ErrBusy))
    /\ UNCHANGED <<balance, isActive, logs, lockState, rowLock, srcRead, myLog, txBal,
                   txDone, stale, err, calls, debits>>
    /\ UNCHANGED <<ivars, redis, currency>>

\* Mutant of Step3: no second lookup under the lock.
Step3NoRecheck(p) ==
    /\ pc[p] = "check2"
    /\ pc' = [pc EXCEPT ![p] = "validate1"]
    /\ UNCHANGED <<balance, isActive, logs, lockState, rowLock, req, result, srcRead,
                   myLog, txBal, txDone, stale, err, calls, responses, debits, faults>>
    /\ UNCHANGED <<ivars, redis, currency>>

\* Step 3: the second lookup, now under the lock.
Step3(p) ==
    /\ pc[p] = "check2"
    /\ LET doubleCheckTransaction == checkExistingTransaction(req[p].idempotencyKey) IN
       IF doubleCheckTransaction # 0
       THEN ToFinally(p, Response(doubleCheckTransaction, "Transaction already processed"))
       ELSE /\ pc' = [pc EXCEPT ![p] = "validate1"]
            /\ UNCHANGED <<lockState, req, result, responses, srcRead, myLog, err>>
    /\ UNCHANGED <<balance, isActive, logs, rowLock, txBal, txDone, stale, calls,
                   debits, faults>>
    /\ UNCHANGED <<ivars, redis, currency>>

\* Mutant of SourceError: a zero amount is let through (amount < 0).
SourceErrorZeroAllowed(r) ==
    IF r.sourceWalletId = r.destinationWalletId THEN ErrSameWallet
    ELSE IF r.amount < 0 THEN ErrAmount
    ELSE IF r.sourceWalletId \notin ExistingWallets THEN ErrSourceNotFound
    ELSE IF ~isActive[r.sourceWalletId] THEN ErrSourceInactive
    ELSE ""

\* Mutant of SourceError: no check that the two wallets differ.
SourceErrorSameWalletAllowed(r) ==
    IF r.amount <= 0 THEN ErrAmount
    ELSE IF r.sourceWalletId \notin ExistingWallets THEN ErrSourceNotFound
    ELSE IF ~isActive[r.sourceWalletId] THEN ErrSourceInactive
    ELSE ""

\* validateTransfer up to and including the read of the source wallet: the
\* message it throws, "" if it goes on.
SourceError(r) ==
    IF r.sourceWalletId = r.destinationWalletId THEN ErrSameWallet
    ELSE IF r.amount <= 0 THEN ErrAmount
    ELSE IF r.sourceWalletId \notin ExistingWallets THEN ErrSourceNotFound
    ELSE IF ~isActive[r.sourceWalletId] THEN ErrSourceInactive
    ELSE ""

\* validateTransfer from the read of the destination wallet on; b is the
\* source balance read before.
DestinationError(r, b) ==
    IF r.destinationWalletId \notin ExistingWallets THEN ErrDestinationNotFound
    ELSE IF ~isActive[r.destinationWalletId] THEN ErrDestinationInactive
    ELSE IF b < r.amount THEN ErrInsufficient
    ELSE ""

\* Step 4, first half.
ValidateSource(p) ==
    /\ pc[p] = "validate1"
    /\ IF SourceError(req[p]) # ""
       THEN ToFinally(p, Failure(SourceError(req[p])))
       ELSE /\ srcRead' = [srcRead EXCEPT ![p] = balance[req[p].sourceWalletId]]
            /\ pc' = [pc EXCEPT ![p] = "validate2"]
            /\ UNCHANGED <<lockState, req, result, responses, myLog, err>>
    /\ UNCHANGED <<balance, isActive, logs, rowLock, txBal, txDone, stale, calls,
                   debits, faults>>
    /\ UNCHANGED <<ivars, redis, currency>>

\* Step 4, second half.
ValidateDestination(p) ==
    /\ pc[p] = "validate2"
    /\ IF DestinationError(req[p], srcRead[p]) # ""
       THEN ToFinally(p, Failure(DestinationError(req[p], srcRead[p])))
       ELSE /\ pc' = [pc EXCEPT ![p] = "create"]
            /\ UNCHANGED <<lockState, req, result, responses, srcRead, myLog, err>>
    /\ UNCHANGED <<balance, isActive, logs, rowLock, txBal, txDone, stale, calls,
                   debits, faults>>
    /\ UNCHANGED <<ivars, redis, currency>>

\* Mutant of UniqueViolation: no unique index on transaction_logs.
UniqueViolationNever(k, ref) == FALSE

\* transaction_logs.idempotency_key and .reference are unique.
UniqueViolation(k, ref) ==
    \E i \in LogIds : logs[i].idempotencyKey = k \/ logs[i].reference = ref

\* TransactionLog.amount: validate { min: 0.01 }.
AmountValid(a) == a >= 10

\* generateReference: a time stamp and six random characters.  Up to the
\* names of the values, a reference no log has yet: the least unused one
\* stands for all of them.
generateReference ==
    LET used == {logs[i].reference : i \in LogIds}
        order == [r \in Refs |-> CHOOSE n \in 1..4 : r = <<"r1", "r2", "r3", "r4">>[n]]
        unused == Refs \ used IN
    CHOOSE r \in unused : \A q \in unused : order[r] <= order[q]

\* Mutant of NewLog: the row is inserted as COMPLETED.
NewLogCompleted(r, reference) ==
    [idempotencyKey |-> r.idempotencyKey,
     sourceWalletId |-> r.sourceWalletId,
     destinationWalletId |-> r.destinationWalletId,
     amount |-> RoundCents(r.amount),
     status |-> COMPLETED,
     reference |-> reference,
     errorMessage |-> ""]

\* The row TransactionLog.create inserts; the amount column keeps whole cents.
NewLog(r, reference) ==
    [idempotencyKey |-> r.idempotencyKey,
     sourceWalletId |-> r.sourceWalletId,
     destinationWalletId |-> r.destinationWalletId,
     amount |-> RoundCents(r.amount),
     status |-> PENDING,
     reference |-> reference,
     errorMessage |-> ""]

\* Step 5: TransactionLog.create, with a reference from generateReference.
CreateLog(p) ==
    /\ pc[p] = "create"
    /\ LET reference == generateReference IN
        IF ~AmountValid(req[p].amount)
        THEN /\ ToFinally(p, Failure(ErrValidationMin))
             /\ UNCHANGED logs
        ELSE IF UniqueViolation(req[p].idempotencyKey, reference)
        THEN /\ ToFinally(p, Failure(ErrUnique))
             /\ UNCHANGED logs
        ELSE /\ logs' = Append(logs, NewLog(req[p], reference))
             /\ myLog' = [myLog EXCEPT ![p] = Len(logs) + 1]
             /\ pc' = [pc EXCEPT ![p] = "begin"]
             /\ UNCHANGED <<lockState, req, result, responses, srcRead, err>>
    /\ UNCHANGED <<balance, isActive, rowLock, txBal, txDone, stale, calls, debits,
                   faults>>
    /\ UNCHANGED <<ivars, redis, currency>>

\* Step 5 when generateReference repeats the reference of an existing log:
\* the insert violates the unique index on reference.
CreateLogReferenceClash(p) ==
    /\ faults < MaxFaults
    /\ faults' = faults + 1
    /\ pc[p] = "create"
    /\ AmountValid(req[p].amount)
    /\ \E i \in LogIds : UniqueViolation(req[p].idempotencyKey, logs[i].reference)
    /\ ToFinally(p, Failure(ErrUnique))
    /\ UNCHANGED <<balance, isActive, logs, rowLock, txBal, txDone, stale, calls,
                   debits>>
    /\ UNCHANGED <<ivars, redis, currency>>

\* ------------------------------------------------------ processTransfer()
\* The caller has a snapshot: it is between the first statement of its
\* transaction and the end of the transaction.
InTransaction(p) == pc[p] \in {"lock1", "lock2", "debit", "credit", "complete", "commit"}

\* Step 6: sequelize.transaction({ isolationLevel: SERIALIZABLE }) and the
\* sending of the two SELECT ... FOR UPDATE; the snapshot is taken here.
BeginTransaction(p) ==
    /\ pc[p] = "begin"
    /\ pc' = [pc EXCEPT ![p] = "lock1"]
    /\ stale' = [stale EXCEPT ![p] = {}]
    /\ UNCHANGED <<balance, isActive, logs, lockState, rowLock, req, result, srcRead,
                   myLog, txBal, txDone, err, calls, responses, debits, faults>>
    /\ UNCHANGED <<ivars, redis, currency>>

\* Wallet.findByPk(walletIds[n], { lock: UPDATE, transaction }): waits while
\* another transaction holds the row; fails if the row was committed by
\* another transaction after this one's snapshot.  The failed statement
\* aborts the transaction in the store, which frees the rows it had locked.
LockWallet(p, n) ==
    /\ pc[p] = (IF n = 1 THEN "lock1" ELSE "lock2")
    /\ LET w == SortedWalletIds(req[p])[n] IN
       /\ rowLock[w] = NoProc
       /\ IF w \in stale[p]
          THEN /\ err' = [err EXCEPT ![p] = ErrSerialize]
               /\ pc' = [pc EXCEPT ![p] = "rollback"]
               /\ rowLock' = ReleaseRows(p)
               /\ UNCHANGED txBal
          ELSE /\ rowLock' = [rowLock EXCEPT ![w] = p]
               /\ txBal' = [txBal EXCEPT ![p][w] = balance[w]]
               /\ pc' = [pc EXCEPT ![p] = IF n = 1 THEN "lock2" ELSE "debit"]
               /\ UNCHANGED err
    /\ UNCHANGED <<balance, isActive, logs, lockState, req, result, srcRead, myLog,
                   txDone, stale, calls, responses, debits, faults>>
    /\ UNCHANGED <<ivars, redis, currency>>

\* Wallet.balance: validate { min: 0 } (and wallets_balance_check).
BalanceValid(b) == b >= 0

\* Mutant of DebitError: the debit is written without the re-check and
\* without validation.
DebitErrorNever(b, amount) == ""

\* What stops the debit of `amount` from a source wallet read with balance b:
\* the re-check inside the transaction, then the validation of the new
\* balance by sourceWallet.update.  "" if nothing stops it.
DebitError(b, amount) ==
    IF b < amount THEN ErrInsufficientAtProcessing
    ELSE IF ~BalanceValid(b - amount) THEN ErrBalanceMin
    ELSE ""

\* ---- the arithmetic of the balances: IEEE doubles, then DECIMAL(20,2)
\* A number of mills n > 0 is the decimal n/1000.  Its double is
\* m / 2^Scale(n) with 2^52 <= m < 2^53; the operators below work on the
\* distance between a double and the decimal it stands for, which stays a
\* small integer.

\* floor(log2(n / 1000)), the exponent of the double of n mills.
RECURSIVE Exponent(_)
Exponent(n) ==
    IF n >= 2000 THEN Exponent(n \div 2) + 1
    ELSE IF n < 1000 THEN Exponent(2 * n) - 1
    ELSE 0

RECURSIVE Pow2(_)
Pow2(k) == IF k = 0 THEN 1 ELSE 2 * Pow2(k - 1)

RECURSIVE Pow2Mod1000(_)
Pow2Mod1000(k) == IF k = 0 THEN 1 ELSE (2 * Pow2Mod1000(k - 1)) % 1000

\* The double of n mills is a multiple of 2^(-Scale(n)).
Scale(n) == 52 - Exponent(n)

\* parseFloat: the double nearest to n/1000 is
\* (n * 2^Scale(n) + RepresentationError(n)) / (1000 * 2^Scale(n)).
RepresentationError(n) ==
    LET q == ((n % 1000) * Pow2Mod1000(Scale(n))) % 1000
    IN IF q < 500 THEN 0 - q ELSE 1000 - q

\* The double b + sign * a (sign is 1 or -1, b and a in mills, the exact
\* result t a positive number of mills) is below the double of t/1000: then
\* it prints with a run of nines (0.18 - 0.015 is 0.16499999999999998),
\* otherwise as t/1000 or just above it.  The sum of two doubles is rounded to
\* the nearest double, ties to the even mantissa.
BelowExact(b, a, sign) ==
    LET t == b + sign * a
        S == IF Scale(b) >= Scale(a) THEN Scale(b) ELSE Scale(a)
        E == RepresentationError(b) * Pow2(S - Scale(b))
             + sign * RepresentationError(a) * Pow2(S - Scale(a))
        st == Scale(t)
        num == IF st >= S THEN E * Pow2(st - S) - RepresentationError(t)
               ELSE E - RepresentationError(t) * Pow2(S - st)
        den == IF st >= S THEN 1000 ELSE 1000 * Pow2(S - st)
        odd == (RepresentationError(t) \div 8) % 2 = 1
        e == Exponent(t)
        \* t/1000 is a power of two: the doubles just below it are twice as dense
        power == IF e >= 0 THEN t = 1000 * Pow2(e) ELSE t * Pow2(0 - e) = 1000
    IN IF power THEN 4 * num < 0 - den
       ELSE \/ 2 * num < 0 - den
            \/ 2 * num = 0 - den /\ odd

\* What a DECIMAL(20,2) column keeps of the double b + sign * a.  Off a
\* half-cent tie the decimal text of the double rounds as the exact result
\* does; on a tie it rounds down exactly when the double is below the tie.
StoredBalance(b, a, sign) ==
    LET t == b + sign * a
    IN IF t <= 0 \/ t % 10 # 5 \/ b = 0 \/ a = 0 THEN RoundCents(t)
       ELSE IF BelowExact(b, a, sign) THEN t - 5 ELSE t + 5

\* newSourceBalance, as the balance column stores it: the float
\* parseFloat(balance) - amount, written to a DECIMAL(20,2) column
\* (0.03 - 0.015 prints as 0.015 and is stored as 0.02; 0.18 - 0.015 prints as
\* 0.16499999999999998 and is stored as 0.16).
NewSourceBalance(b, amount) == StoredBalance(b, amount, -1)

\* newDestinationBalance, as the balance column stores it.
NewDestinationBalance(b, amount) == StoredBalance(b, amount, 1)

\* The balance re-check and the debit of the source wallet.
Debit(p) ==
    /\ pc[p] = "debit"
    /\ LET src == req[p].sourceWalletId
           amount == req[p].amount IN
       IF DebitError(txBal[p][src], amount) # ""
       THEN /\ err' = [err EXCEPT ![p] = DebitError(txBal[p][src], amount)]
            /\ pc' = [pc EXCEPT ![p] = "rollback"]
            /\ UNCHANGED txBal
       ELSE /\ txBal' = [txBal EXCEPT ![p][src] = NewSourceBalance(txBal[p][src], amount)]
            /\ pc' = [pc EXCEPT ![p] = "credit"]
            /\ UNCHANGED err
    /\ UNCHANGED <<balance, isActive, logs, lockState, rowLock, req, result, srcRead,
                   myLog, txDone, stale, calls, responses, debits, faults>>
    /\ UNCHANGED <<ivars, redis, currency>>

\* The credit of the destination wallet.
Credit(p) ==
    /\ pc[p] = "credit"
    /\ LET dst == req[p].destinationWalletId IN
       txBal' = [txBal EXCEPT ![p][dst] = NewDestinationBalance(txBal[p][dst], req[p].amount)]
    /\ pc' = [pc EXCEPT ![p] = "complete"]
    /\ UNCHANGED <<balance, isActive, logs, lockState, rowLock, req, result, srcRead,
                   myLog, txDone, stale, err, calls, responses, debits, faults>>
    /\ UNCHANGED <<ivars, redis, currency>>

\* TransactionLog.update({ status: COMPLETED }, { where: { id }, transaction }).
Complete(p) ==
    /\ pc[p] = "complete"
    /\ txDone' = [txDone EXCEPT ![p] = TRUE]
    /\ pc' = [pc EXCEPT ![p] = "commit"]
    /\ UNCHANGED <<balance, isActive, logs, lockState, rowLock, req, result, srcRead,
                   myLog, txBal, stale, err, calls, responses, debits, faults>>
    /\ UNCHANGED <<ivars, redis, currency>>

\* Mutant of Committed: the update of the log runs outside the transaction
\* and is lost.
CommittedWithoutLog(p) ==
    LET src == req[p].sourceWalletId
        dst == req[p].destinationWalletId IN
    /\ balance' = [balance EXCEPT ![src] = txBal[p][src], ![dst] = txBal[p][dst]]
    /\ logs' = logs
    /\ rowLock' = ReleaseRows(p)
    /\ stale' = [q \in Procs |->
                    IF q = p THEN {}
                    ELSE IF InTransaction(q) THEN stale[q] \cup {src, dst}
                    ELSE stale[q]]
    /\ txBal' = [txBal EXCEPT ![p] = NoTxBal]
    /\ txDone' = [txDone EXCEPT ![p] = FALSE]
    /\ debits' = [debits EXCEPT ![req[p].idempotencyKey] = @ + 1]

\* What transaction.commit() makes visible, all at once: the two balances and
\* the log status.  The row locks end; every other open snapshot is now older
\* than the two wallet rows.
Committed(p) ==
    LET src == req[p].sourceWalletId
        dst == req[p].destinationWalletId IN
    /\ balance' = [balance EXCEPT ![src] = txBal[p][src], ![dst] = txBal[p][dst]]
    /\ logs' = IF txDone[p] THEN [logs EXCEPT ![myLog[p]].status = COMPLETED] ELSE logs
    /\ rowLock' = ReleaseRows(p)
    /\ stale' = [q \in Procs |->
                    IF q = p THEN {}
                    ELSE IF InTransaction(q) THEN stale[q] \cup {src, dst}
                    ELSE stale[q]]
    /\ txBal' = [txBal EXCEPT ![p] = NoTxBal]
    /\ txDone' = [txDone EXCEPT ![p] = FALSE]
    /\ debits' = [debits EXCEPT ![req[p].idempotencyKey] = @ + 1]

\* transaction.commit() succeeds.
Commit(p) ==
    /\ pc[p] = "commit"
    /\ Committed(p)
    /\ pc' = [pc EXCEPT ![p] = "fetch"]
    /\ UNCHANGED <<isActive, lockState, req, result, srcRead, myLog, err, calls, responses, faults>>
    /\ UNCHANGED <<ivars, redis, currency>>

\* Step 7: the log is read again and the response built from it.
Fetch(p) ==
    /\ pc[p] = "fetch"
    /\ ToFinally(p, Response(myLog[p], "Transfer completed successfully"))
    /\ UNCHANGED <<balance, isActive, logs, rowLock, txBal, txDone, stale, calls,
                   debits, faults>>
    /\ UNCHANGED <<ivars, redis, currency>>

\* catch: transaction.rollback() undoes the transaction and frees its rows.
Rollback(p) ==
    /\ pc[p] = "rollback"
    /\ rowLock' = ReleaseRows(p)
    /\ ClearTx(p)
    /\ pc' = [pc EXCEPT ![p] = "markFailed"]
    /\ UNCHANGED <<balance, isActive, logs, lockState, req, result, srcRead, myLog, err,
                   calls, responses, debits, faults>>
    /\ UNCHANGED <<ivars, redis, currency>>

\* Mutant of MarkFailed: the update has no where clause on the id and marks
\* every row that is not COMPLETED.
MarkFailedEveryRow(p) ==
    /\ pc[p] = "markFailed"
    /\ logs' = [i \in LogIds |->
                    IF logs[i].status = COMPLETED THEN logs[i]
                    ELSE [logs[i] EXCEPT !.status = FAILED, !.errorMessage = err[p]]]
    /\ ToFinally(p, Failure(err[p]))
    /\ UNCHANGED <<balance, isActive, rowLock, txBal, txDone, stale, calls, debits,
                   faults>>
    /\ UNCHANGED <<ivars, redis, currency>>

\* catch: TransactionLog.update({ status: FAILED, errorMessage }, { where: { id } }),
\* then the error is thrown again.
MarkFailed(p) ==
    /\ pc[p] = "markFailed"
    /\ logs' = [logs EXCEPT ![myLog[p]].status = FAILED,
                            ![myLog[p]].errorMessage = err[p]]
    /\ ToFinally(p, Failure(err[p]))
    /\ UNCHANGED <<balance, isActive, rowLock, txBal, txDone, stale, calls, debits,
                   faults>>
    /\ UNCHANGED <<ivars, redis, currency>>

\* finally: the DEL is answered, the lock key is deleted and the call
\* returns or throws.
ReleaseLock(p) ==
    /\ pc[p] = "release"
    /\ Answers
    /\ lockState' = del(req[p].idempotencyKey)
    /\ Leave(p, result[p])
    /\ srcRead' = [srcRead EXCEPT ![p] = -1]
    /\ myLog' = [myLog EXCEPT ![p] = 0]
    /\ err' = [err EXCEPT ![p] = ""]
    /\ UNCHANGED <<balance, isActive, logs, rowLock, txBal, txDone, stale, calls, debits, faults>>
    /\ UNCHANGED <<ivars, redis, currency>>


\* ------------------------------------------------- faults of the environment
\* The store fails the first lookup: the error leaves transfer() directly.
LookupFault(p) ==
    /\ faults < MaxFaults
    /\ faults' = faults + 1
    /\ pc[p] = "check1"
    /\ Leave(p, Failure(ErrStorage))
    /\ UNCHANGED <<balance, isActive, logs, lockState, rowLock, srcRead, myLog, txBal,
                   txDone, stale, err, calls, debits>>
    /\ UNCHANGED <<ivars, redis, currency>>

\* The store fails a statement of transfer() inside the try block but outside
\* processTransfer's own try (lookup, validation reads, create, opening the
\* transaction, the final read).
StoreFault(p) ==
    /\ faults < MaxFaults
    /\ faults' = faults + 1
    /\ pc[p] \in {"check2", "validate1", "validate2", "create", "begin", "fetch"}
    /\ ToFinally(p, Failure(ErrStorage))
    /\ UNCHANGED <<balance, isActive, logs, rowLock, txBal, txDone, stale, calls,
                   debits>>
    /\ UNCHANGED <<ivars, redis, currency>>

\* The store fails a statement inside processTransfer's try block: the
\* transaction is aborted in the store and the rows it had locked are free.
TransactionFault(p) ==
    /\ faults < MaxFaults
    /\ faults' = faults + 1
    /\ pc[p] \in {"lock1", "lock2", "debit", "credit", "complete"}
    /\ err' = [err EXCEPT ![p] = ErrStorage]
    /\ pc' = [pc EXCEPT ![p] = "rollback"]
    /\ rowLock' = ReleaseRows(p)
    /\ UNCHANGED <<balance, isActive, logs, lockState, req, result, srcRead,
                   myLog, txBal, txDone, stale, calls, responses, debits>>
    /\ UNCHANGED <<ivars, redis, currency>>

\* transaction.commit() throws and nothing was committed.  The transaction is
\* finished, so the rollback() of the catch block throws in its turn and the
\* log is not marked.
CommitFails(p) ==
    /\ faults < MaxFaults
    /\ faults' = faults + 1
    /\ pc[p] = "commit"
    /\ rowLock' = ReleaseRows(p)
    /\ ClearTx(p)
    /\ ToFinally(p, Failure(ErrFinished))
    /\ UNCHANGED <<balance, isActive, logs, calls, debits>>
    /\ UNCHANGED <<ivars, redis, currency>>

\* Mutant of CommitAckLost: the catch block goes on to mark the log FAILED
\* although the commit was applied.
CommitAckLostMarksFailed(p) ==
    /\ faults < MaxFaults
    /\ faults' = faults + 1
    /\ pc[p] = "commit"
    /\ Committed(p)
    /\ pc' = [pc EXCEPT ![p] = "markFailed"]
    /\ err' = [err EXCEPT ![p] = ErrStorage]
    /\ UNCHANGED <<isActive, lockState, req, result, srcRead, myLog, calls, responses>>
    /\ UNCHANGED <<ivars, redis, currency>>

\* transaction.commit() throws although the store committed (the answer was
\* lost); the catch block behaves as in CommitFails.
CommitAckLost(p) ==
    /\ faults < MaxFaults
    /\ faults' = faults + 1
    /\ pc[p] = "commit"
    /\ Committed(p)
    /\ ToFinally(p, Failure(ErrFinished))
    /\ UNCHANGED <<isActive, calls>>
    /\ UNCHANGED <<ivars, redis, currency>>

\* transaction.rollback() throws: the store drops the transaction with the
\* connection, the log is not marked.
RollbackFails(p) ==
    /\ faults < MaxFaults
    /\ faults' = faults + 1
    /\ pc[p] = "rollback"
    /\ rowLock' = ReleaseRows(p)
    /\ ClearTx(p)
    /\ ToFinally(p, Failure(ErrStorage))
    /\ UNCHANGED <<balance, isActive, logs, calls, debits>>
    /\ UNCHANGED <<ivars, redis, currency>>

\* The update to FAILED throws.
MarkFailedFails(p) ==
    /\ faults < MaxFaults
    /\ faults' = faults + 1
    /\ pc[p] = "markFailed"
    /\ ToFinally(p, Failure(ErrStorage))
    /\ UNCHANGED <<balance, isActive, logs, rowLock, txBal, txDone, stale, calls,
                   debits>>
    /\ UNCHANGED <<ivars, redis, currency>>

\* The DEL is rejected (by the cache, or because the client is closed): releaseLock catches the error and the key stays until
\* it expires.
ReleaseLockFails(p) ==
    /\ pc[p] = "release"
    /\ IF redis.state = "closed"
       THEN UNCHANGED faults
       ELSE /\ Answers
            /\ faults < MaxFaults
            /\ faults' = faults + 1
    /\ Leave(p, result[p])
    /\ srcRead' = [srcRead EXCEPT ![p] = -1]
    /\ myLog' = [myLog EXCEPT ![p] = 0]
    /\ err' = [err EXCEPT ![p] = ""]
    /\ UNCHANGED <<balance, isActive, logs, lockState, rowLock, txBal, txDone, stale,
                   calls, debits>>
    /\ UNCHANGED <<ivars, redis, currency>>

\* The lock key reaches its time to live (PX 10000).
Expire(k) ==
    /\ faults < MaxFaults
    /\ faults' = faults + 1
    /\ k \in lockState
    /\ lockState' = lockState \ {k}
    /\ UNCHANGED <<balance, isActive, logs, rowLock, pc, req, result, srcRead, myLog,
                   txBal, txDone, stale, err, calls, responses, debits>>
    /\ UNCHANGED <<ivars, redis, currency>>

\* A caller's call is in progress.
Running(p) == pc[p] \notin {"idle", "done", "crashed"}

\* The process dies with every call it is serving; the store drops their
\* open transactions, the keys they set stay in the cache.  The process that
\* takes over starts with a new TransferService: no client.
Crash ==
    /\ faults < MaxFaults
    /\ faults' = faults + 1
    /\ \E p \in Procs : Running(p)
    /\ pc' = [p \in Procs |-> IF Running(p) THEN "crashed" ELSE pc[p]]
    /\ rowLock' = [w \in ExistingWallets |-> NoProc]
    /\ txBal' = [p \in Procs |-> NoTxBal]
    /\ txDone' = [p \in Procs |-> FALSE]
    /\ stale' = [p \in Procs |-> {}]
    /\ req' = [p \in Procs |-> IF Running(p) THEN NoRequest ELSE req[p]]
    /\ result' = [p \in Procs |-> IF Running(p) THEN NoResult ELSE result[p]]
    /\ srcRead' = [p \in Procs |-> -1]
    /\ myLog' = [p \in Procs |-> 0]
    /\ err' = [p \in Procs |-> ""]
    /\ redis' = NoRedis
    /\ UNCHANGED <<balance, isActive, logs, lockState, calls, responses, debits>>
    /\ UNCHANGED <<ivars, currency>>

\* ------------------------------------- calculateInterestForAccount()
\* calculationDate.getFullYear().
getFullYear(calculationDate) == calculationDate \div 1000

\* Mutant of isLeapYear: every fourth year is a leap year.
isLeapYearJulian(year) == year % 4 = 0

\* isLeapYear(year).
isLeapYear(year) == (year % 4 = 0 /\ year % 100 # 0) \/ year % 400 = 0

\* daysInYear of a calculation dated in `year`.
DaysInYear(year) == IF isLeapYear(year) THEN 366 ELSE 365

\* dailyInterest.toFixed(10): balance * (rate / 100) / daysInYear with the
\* rate of the account (in thousandths), rounded half up at the tenth decimal.
DailyInterest(b, rate, daysInYear) ==
    (2 * b * rate + 1000 * daysInYear) \div (2 * 1000 * daysInYear)

InterestLogIds == 1..Len(interestLogs)

\* The committed interest_logs rows of account a and date d.
LogsOfAccountDate(a, d) ==
    {i \in InterestLogIds : /\ interestLogs[i].accountId = a
                            /\ interestLogs[i].calculationDate = d}

\* Worker w is between the first statement of its transaction and its end.
InInterestTransaction(w) == job[w].pc \in {"insert", "update", "commitInterest"}

\* The worker leaves calculateInterestForAccount with an error.
Throw(w, message) ==
    job' = [job EXCEPT ![w] = [NoJob EXCEPT !.pc = "done", !.error = message,
                                            !.accountId = job[w].accountId,
                                            !.calculationDate = job[w].calculationDate]]

\* A caller calls calculateInterestForAccount(accountId, calculationDate).
CalculateInterest(w, a, d) ==
    /\ job[w].pc \in {"idle", "done"}
    /\ interestCalls < MaxInterestCalls
    /\ interestCalls' = interestCalls + 1
    /\ job' = [job EXCEPT ![w] = [NoJob EXCEPT !.pc = "find", !.accountId = a,
                                              !.calculationDate = d]]
    /\ UNCHANGED <<accounts, interestLogs, accountLock>>
    /\ UNCHANGED <<tvars, batch>>

\* Mutant of FindAccount: the isActive check is missing.
FindAccountNoActiveCheck(w) ==
    /\ job[w].pc = "find"
    /\ LET a == job[w].accountId IN
       IF a \notin ExistingAccounts THEN Throw(w, ErrAccountNotFound)
       ELSE job' = [job EXCEPT ![w].pc = "existing",
                               ![w].balance = accounts[a].balance,
                               ![w].interestRate = accounts[a].interestRate,
                               ![w].totalInterestEarned = accounts[a].totalInterestEarned]
    /\ UNCHANGED <<accounts, interestLogs, accountLock, interestCalls>>
    /\ UNCHANGED <<tvars, batch>>

\* Account.findByPk(accountId) and the two checks of the account.
FindAccount(w) ==
    /\ job[w].pc = "find"
    /\ LET a == job[w].accountId IN
       IF a \notin ExistingAccounts THEN Throw(w, ErrAccountNotFound)
       ELSE IF ~accounts[a].isActive THEN Throw(w, ErrAccountInactive)
       ELSE job' = [job EXCEPT ![w].pc = "existing",
                               ![w].balance = accounts[a].balance,
                               ![w].interestRate = accounts[a].interestRate,
                               ![w].totalInterestEarned = accounts[a].totalInterestEarned]
    /\ UNCHANGED <<accounts, interestLogs, accountLock, interestCalls>>
    /\ UNCHANGED <<tvars, batch>>

\* InterestLog.findOne({ where: { accountId, calculationDate } }), then the
\* computation of daysInYear, dailyInterest and newBalance from the account
\* as it was read.
FindExistingLog(w) ==
    /\ job[w].pc = "existing"
    /\ IF LogsOfAccountDate(job[w].accountId, job[w].calculationDate) # {}
       THEN Throw(w, ErrAlreadyCalculated)
       ELSE LET daysInYear == DaysInYear(getFullYear(job[w].calculationDate)) IN
            job' = [job EXCEPT ![w].pc = "beginInterest",
                               ![w].daysInYear = daysInYear,
                               ![w].dailyInterest = DailyInterest(job[w].balance, job[w].interestRate,
                                                                  daysInYear)]
    /\ UNCHANGED <<accounts, interestLogs, accountLock, interestCalls>>
    /\ UNCHANGED <<tvars, batch>>

\* sequelize.transaction({ isolationLevel: SERIALIZABLE }) and the sending of
\* the first statement; the snapshot is taken here.
BeginInterestTransaction(w) ==
    /\ job[w].pc = "beginInterest"
    /\ job' = [job EXCEPT ![w].pc = "insert", ![w].stale = FALSE]
    /\ UNCHANGED <<accounts, interestLogs, accountLock, interestCalls>>
    /\ UNCHANGED <<tvars, batch>>

\* Mutant of CreateInterestLog: the table has no unique constraint on
\* (account_id, calculation_date).
CreateInterestLogNoUnique(w) ==
    /\ job[w].pc = "insert"
    /\ job' = [job EXCEPT ![w].pc = "update"]
    /\ UNCHANGED <<accounts, interestLogs, accountLock, interestCalls>>
    /\ UNCHANGED <<tvars, batch>>

\* InterestLog.create(..., { transaction }): waits while another open
\* transaction has inserted a row for the same account and date; fails on
\* interest_logs_account_date_unique if such a row is committed.
CreateInterestLog(w) ==
    /\ job[w].pc = "insert"
    /\ \A v \in Workers \ {w} :
          ~(/\ job[v].pc \in {"update", "commitInterest"}
            /\ job[v].accountId = job[w].accountId
            /\ job[v].calculationDate = job[w].calculationDate)
    /\ IF LogsOfAccountDate(job[w].accountId, job[w].calculationDate) # {}
       THEN job' = [job EXCEPT ![w].pc = "rollbackInterest", ![w].error = ErrUnique]
       ELSE job' = [job EXCEPT ![w].pc = "update"]
    /\ UNCHANGED <<accounts, interestLogs, accountLock, interestCalls>>
    /\ UNCHANGED <<tvars, batch>>

\* account.update({ balance, totalInterestEarned, lastInterestDate },
\* { transaction }): waits for the row lock; fails if the row was committed by
\* another transaction after this one's snapshot.
UpdateAccount(w) ==
    /\ job[w].pc = "update"
    /\ accountLock[job[w].accountId] = NoWorker
    /\ IF job[w].stale
       THEN /\ job' = [job EXCEPT ![w].pc = "rollbackInterest", ![w].error = ErrSerialize]
            /\ UNCHANGED accountLock
       ELSE /\ job' = [job EXCEPT ![w].pc = "commitInterest"]
            /\ accountLock' = [accountLock EXCEPT ![job[w].accountId] = w]
    /\ UNCHANGED <<accounts, interestLogs, interestCalls>>
    /\ UNCHANGED <<tvars, batch>>

\* The interest_logs row the transaction inserts.
NewInterestLog(w) ==
    [accountId |-> job[w].accountId,
     calculationDate |-> job[w].calculationDate,
     openingBalance |-> job[w].balance,
     daysInYear |-> job[w].daysInYear,
     interestAmount |-> job[w].dailyInterest,
     closingBalance |-> job[w].balance + job[w].dailyInterest]

\* transaction.commit(): the log row and the account row become visible
\* together; the call returns its result.
CommitInterest(w) ==
    /\ job[w].pc = "commitInterest"
    /\ LET a == job[w].accountId IN
       /\ interestLogs' = Append(interestLogs, NewInterestLog(w))
       /\ accounts' = [accounts EXCEPT
                          ![a].balance = job[w].balance + job[w].dailyInterest,
                          ![a].totalInterestEarned =
                              job[w].totalInterestEarned + job[w].dailyInterest,
                          ![a].lastInterestDate = job[w].calculationDate]
       /\ accountLock' = [accountLock EXCEPT ![a] = NoWorker]
       /\ job' = [v \in Workers |->
                    IF v = w THEN [job[w] EXCEPT !.pc = "done", !.stale = FALSE]
                    ELSE IF InInterestTransaction(v) /\ job[v].accountId = a
                    THEN [job[v] EXCEPT !.stale = TRUE]
                    ELSE job[v]]
    /\ UNCHANGED interestCalls
    /\ UNCHANGED <<tvars, batch>>

\* catch: transaction.rollback() and the error is thrown again.
RollbackInterest(w) ==
    /\ job[w].pc = "rollbackInterest"
    /\ Throw(w, job[w].error)
    /\ accountLock' = [a \in ExistingAccounts |->
                          IF accountLock[a] = w THEN NoWorker ELSE accountLock[a]]
    /\ UNCHANGED <<accounts, interestLogs, interestCalls>>
    /\ UNCHANGED <<tvars, batch>>

NextInterest ==
    \/ \E w \in Workers, a \in AccountIds, d \in Dates : CalculateInterest(w, a, d)
    \/ \E w \in Workers : FindAccount(w)
    \/ \E w \in Workers : FindExistingLog(w)
    \/ \E w \in Workers : BeginInterestTransaction(w)
    \/ \E w \in Workers : CreateInterestLog(w)
    \/ \E w \in Workers : UpdateAccount(w)
    \/ \E w \in Workers : CommitInterest(w)
    \/ \E w \in Workers : RollbackInterest(w)

SpecInterest == Init /\ [][NextInterest]_vars

(***************************************************************************)
(* calculateInterestForAllAccounts: one findAll of the active accounts,    *)
(* then one call of calculateInterestForAccount per account found, one     *)
(* after the other, each inside its own try/catch.  The calls of the batch *)
(* run on BatchWorker; the other worker stands for the clients that call   *)
(* calculateInterestForAccount at the same time, and the owner of the      *)
(* accounts table may switch an account off at any moment.                 *)
(***************************************************************************)

BatchWorker == "w1"

\* The dates of the batch and of the calls the clients make beside it.
BatchDates == {2023060, 2024061}

\* The set of elements of a sequence.
Range(s) == {s[i] : i \in 1..Len(s)}

\* findAll has no order clause: the rows come back in any order.
Orderings(S) ==
    {s \in [1..Cardinality(S) -> S] : \A i, j \in 1..Cardinality(S) : s[i] = s[j] => i = j}

\* Account.findAll({ where: { isActive: true } })
findAllActive == {a \in ExistingAccounts : accounts[a].isActive}

\* account.update({ isActive: active }) by the owner of the accounts: one
\* UPDATE of the row, committed at once.  It waits for the row lock, and a
\* SERIALIZABLE transaction that began before it can no longer update the
\* row.
SetIsActive(a, active) ==
    /\ accounts[a].isActive # active
    /\ accountLock[a] = NoWorker
    /\ accounts' = [accounts EXCEPT ![a].isActive = active]
    /\ job' = [v \in Workers |->
                 IF InInterestTransaction(v) /\ job[v].accountId = a
                 THEN [job[v] EXCEPT !.stale = TRUE]
                 ELSE job[v]]
    /\ UNCHANGED <<interestLogs, accountLock, interestCalls>>
    /\ UNCHANGED <<tvars, batch>>

\* Every set of active accounts the table can hold when the batch starts.
InitBatch ==
    /\ balance = InitialBalance
    /\ isActive = InitialActive
    /\ logs = <<>>
    /\ lockState = {}
    /\ rowLock = [w \in ExistingWallets |-> NoProc]
    /\ pc = [p \in Procs |-> "idle"]
    /\ req = [p \in Procs |-> NoRequest]
    /\ result = [p \in Procs |-> NoResult]
    /\ srcRead = [p \in Procs |-> -1]
    /\ myLog = [p \in Procs |-> 0]
    /\ txBal = [p \in Procs |-> NoTxBal]
    /\ txDone = [p \in Procs |-> FALSE]
    /\ stale = [p \in Procs |-> {}]
    /\ err = [p \in Procs |-> ""]
    /\ calls = 0
    /\ faults = 0
    /\ responses = {}
    /\ debits = [k \in Keys |-> 0]
    /\ redis = NoRedis
    /\ currency = InitialCurrency
    /\ \E active \in SUBSET ExistingAccounts :
          accounts = [a \in ExistingAccounts |->
                         [InitialAccounts[a] EXCEPT !.isActive = a \in active]]
    /\ interestLogs = <<>>
    /\ job = [w \in Workers |-> NoJob]
    /\ accountLock = [a \in ExistingAccounts |-> NoWorker]
    /\ interestCalls = 0
    /\ batch = NoBatch

\* The call, up to its first await: the findAll is sent.
CalculateInterestForAllAccounts(d) ==
    /\ batch.pc = "idle"
    /\ batch' = [NoBatch EXCEPT !.pc = "findAll", !.calculationDate = d]
    /\ UNCHANGED <<accounts, interestLogs, job, accountLock, interestCalls>>
    /\ UNCHANGED tvars

\* The findAll is answered: the accounts that are active when the store
\* runs the SELECT, in any order.
FindAllAnswered ==
    /\ batch.pc = "findAll"
    /\ \E found \in Orderings(findAllActive) :
          batch' = [batch EXCEPT !.pc = "loop", !.found = found, !.todo = found]
    /\ UNCHANGED <<accounts, interestLogs, job, accountLock, interestCalls>>
    /\ UNCHANGED tvars

\* for (const account of accounts): the call for the next account.
BatchCall ==
    /\ batch.pc = "loop"
    /\ batch.todo # <<>>
    /\ job' = [job EXCEPT ![BatchWorker] =
                  [NoJob EXCEPT !.pc = "find", !.accountId = Head(batch.todo),
                                !.calculationDate = batch.calculationDate]]
    /\ batch' = [batch EXCEPT !.pc = "await",
                              !.attempted = Append(@, Head(batch.todo))]
    /\ UNCHANGED <<accounts, interestLogs, accountLock, interestCalls>>
    /\ UNCHANGED tvars

\* A batch with no try/catch around the call: the first error ends it.
BatchCollectStopsAtError ==
    /\ batch.pc = "await"
    /\ job[BatchWorker].pc = "done"
    /\ batch' = IF job[BatchWorker].error = ""
                THEN [batch EXCEPT !.pc = "loop", !.todo = Tail(@),
                                   !.results = Append(@, Head(batch.todo))]
                ELSE [batch EXCEPT !.pc = "returned",
                                   !.errors = Append(@, Head(batch.todo))]
    /\ UNCHANGED <<accounts, interestLogs, job, accountLock, interestCalls>>
    /\ UNCHANGED tvars

\* The call returned (results.push) or threw (catch: errors.push).
BatchCollect ==
    /\ batch.pc = "await"
    /\ job[BatchWorker].pc = "done"
    /\ batch' = IF job[BatchWorker].error = ""
                THEN [batch EXCEPT !.pc = "loop", !.todo = Tail(@),
                                   !.results = Append(@, Head(batch.todo))]
                ELSE [batch EXCEPT !.pc = "loop", !.todo = Tail(@),
                                   !.errors = Append(@, Head(batch.todo))]
    /\ UNCHANGED <<accounts, interestLogs, job, accountLock, interestCalls>>
    /\ UNCHANGED tvars

\* return results
BatchReturn ==
    /\ batch.pc = "loop"
    /\ batch.todo = <<>>
    /\ batch' = [batch EXCEPT !.pc = "returned"]
    /\ UNCHANGED <<accounts, interestLogs, job, accountLock, interestCalls>>
    /\ UNCHANGED tvars

NextBatch ==
    \/ \E d \in BatchDates : CalculateInterestForAllAccounts(d)
    \/ FindAllAnswered
    \/ BatchCall
    \/ BatchCollect
    \/ BatchReturn
    \/ \E w \in Workers \ {BatchWorker}, a \in ExistingAccounts, d \in BatchDates :
          CalculateInterest(w, a, d)
    \/ \E w \in Workers : FindAccount(w)
    \/ \E w \in Workers : FindExistingLog(w)
    \/ \E w \in Workers : BeginInterestTransaction(w)
    \/ \E w \in Workers : CreateInterestLog(w)
    \/ \E w \in Workers : UpdateAccount(w)
    \/ \E w \in Workers : CommitInterest(w)
    \/ \E w \in Workers : RollbackInterest(w)
    \/ \E a \in ExistingAccounts : SetIsActive(a, FALSE)

SpecBatch == InitBatch /\ [][NextBatch]_vars

\* ------------------------------------------------------------------ system
\* The steps that depend on the state of the cache.
ServeCache ==
    \/ \E p \in Procs : Connect(p)
    \/ \E p \in Procs : AcquireLockConnectFails(p)
    \/ \E p \in Procs : AcquireLock(p)
    \/ \E p \in Procs : AcquireLockUnavailable(p)
    \/ \E p \in Procs : ReleaseLockFails(p)
    \/ \E k \in Keys : Expire(k)

\* The steps that do not: the store, the finally block, crashes.
ServeStore ==
    \/ \E p \in Procs : Step1(p)
    \/ \E p \in Procs : Step3(p)
    \/ \E p \in Procs : ValidateSource(p)
    \/ \E p \in Procs : ValidateDestination(p)
    \/ \E p \in Procs : CreateLog(p)
    \/ \E p \in Procs : CreateLogReferenceClash(p)
    \/ \E p \in Procs : BeginTransaction(p)
    \/ \E p \in Procs, n \in {1, 2} : LockWallet(p, n)
    \/ \E p \in Procs : Debit(p)
    \/ \E p \in Procs : Credit(p)
    \/ \E p \in Procs : Complete(p)
    \/ \E p \in Procs : Commit(p)
    \/ \E p \in Procs : Fetch(p)
    \/ \E p \in Procs : Rollback(p)
    \/ \E p \in Procs : MarkFailed(p)
    \/ \E p \in Procs : ReleaseLock(p)
    \/ \E p \in Procs : LookupFault(p)
    \/ \E p \in Procs : StoreFault(p)
    \/ \E p \in Procs : TransactionFault(p)
    \/ \E p \in Procs : CommitFails(p)
    \/ \E p \in Procs : CommitAckLost(p)
    \/ \E p \in Procs : RollbackFails(p)
    \/ \E p \in Procs : MarkFailedFails(p)
    \/ Crash

\* Every step but the arrival of a call.
Serve == ServeCache \/ ServeStore

Next ==
    \/ \E p \in Procs, r \in Requests : Call(p, r)
    \/ Serve

Spec == Init /\ [][Next]_vars

\* The same system when clients only send amounts in whole cents.
WholeCentRequests == {r \in Requests : r.amount = RoundCents(r.amount)}

NextWholeCents ==
    \/ \E p \in Procs, r \in WholeCentRequests : Call(p, r)
    \/ Serve

SpecWholeCents == Init /\ [][NextWholeCents]_vars

\* The same system when the lock stops nothing: every SET NX finds the key
\* gone (it expired, however short the time since it was set), so every
\* acquireLock that reaches the cache is granted.
AcquireLockDisabled(p) ==
    /\ pc[p] = "acquire"
    /\ Answers
    /\ lockState' = lockState \cup {req[p].idempotencyKey}
    /\ pc' = [pc EXCEPT ![p] = "check2"]
    /\ UNCHANGED <<balance, isActive, logs, rowLock, req, result, srcRead, myLog, txBal,
                   txDone, stale, err, calls, responses, debits, faults>>
    /\ UNCHANGED <<ivars, redis, currency>>

NextLockDisabled ==
    \/ \E p \in Procs, r \in Requests : Call(p, r)
    \/ \E p \in Procs : Connect(p)
    \/ \E p \in Procs : AcquireLockDisabled(p)
    \/ ServeStore

SpecLockDisabled == Init /\ [][NextLockDisabled]_vars

\* ------------------------------------- the other methods of RedisService
\* RedisService also has connect, get, set, delete and disconnect.  Nothing
\* in the repository calls them on the service of TransferService (a private
\* field) or on a lock key, so they are no part of Next; SpecCacheClients
\* is the system with one more user of that service, who calls one method at
\* a time.  Each await of a method is a step of its own.

\* connect, get or set, up to the first await: connect() when the service
\* has no client, else the command ("connect" returns at once).  A client
\* that is closing or closed rejects the command at once and nothing changes.
CallWithConnect(op, k) ==
    /\ redis.call = NoCall
    /\ redis.state = "null" \/ (Sends /\ op # "connect")
    /\ redis' = IF redis.state = "null"
                THEN [state |-> "connecting", call |-> [op |-> op, key |-> k, at |-> "connect"]]
                ELSE [redis EXCEPT !.call = [op |-> op, key |-> k, at |-> "command"]]
    /\ UNCHANGED <<lockState, faults>>
    /\ UNCHANGED <<balance, isActive, logs, rowLock, pc, req, result, srcRead, myLog,
                   txBal, txDone, stale, err, calls, responses, debits>>
    /\ UNCHANGED <<ivars, currency>>

\* RedisService.connect() on a service without a client.
ConnectCall == CallWithConnect("connect", "")

\* RedisService.get(key).
GetCall(k) == CallWithConnect("get", k)

\* RedisService.set(key, value): a plain SET, no NX.
SetCall(k) == CallWithConnect("set", k)

\* RedisService.delete(key): nothing without a client, else DEL (rejected at
\* once, and the error caught, on a client that is closing or closed).
DeleteCall(k) ==
    /\ redis.call = NoCall
    /\ Sends
    /\ redis' = [redis EXCEPT !.call = [op |-> "delete", key |-> k, at |-> "command"]]
    /\ UNCHANGED <<lockState, faults>>
    /\ UNCHANGED <<balance, isActive, logs, rowLock, pc, req, result, srcRead, myLog,
                   txBal, txDone, stale, err, calls, responses, debits>>
    /\ UNCHANGED <<ivars, currency>>

\* RedisService.disconnect() on a service with a client: quit() is called
\* and the client takes no more commands; this.client stays set until the
\* answer.  On a client still connecting QUIT waits for the connection.  (On
\* a closed client quit() is rejected at once, disconnect throws and nothing
\* changes.)
DisconnectCall ==
    /\ redis.call = NoCall
    /\ Sends
    /\ redis' = [state |-> "closing",
                 call |-> [op |-> "disconnect", key |-> "",
                           at |-> IF redis.state = "connecting" THEN "connect"
                                  ELSE "command"]]
    /\ UNCHANGED <<lockState, faults>>
    /\ UNCHANGED <<balance, isActive, logs, rowLock, pc, req, result, srcRead, myLog,
                   txBal, txDone, stale, err, calls, responses, debits>>
    /\ UNCHANGED <<ivars, currency>>

\* The connect() of the method is answered: the command is sent.
Connected ==
    /\ redis.state = "connecting"
    /\ redis.call.at = "connect"
    /\ redis' = [state |-> "open",
                 call |-> IF redis.call.op = "connect" THEN NoCall
                          ELSE [redis.call EXCEPT !.at = "command"]]
    /\ UNCHANGED <<lockState, faults>>
    /\ UNCHANGED <<balance, isActive, logs, rowLock, pc, req, result, srcRead, myLog,
                   txBal, txDone, stale, err, calls, responses, debits>>
    /\ UNCHANGED <<ivars, currency>>

\* The connect() of the method is rejected: the method throws (get too, its
\* connect is outside its try block) and this.client keeps the client.
ConnectRejected ==
    /\ faults < MaxFaults
    /\ faults' = faults + 1
    /\ redis.state = "connecting"
    /\ redis.call.at = "connect"
    /\ redis' = [state |-> "closed", call |-> NoCall]
    /\ UNCHANGED lockState
    /\ UNCHANGED <<balance, isActive, logs, rowLock, pc, req, result, srcRead, myLog,
                   txBal, txDone, stale, err, calls, responses, debits>>
    /\ UNCHANGED <<ivars, currency>>

\* The command of the method is answered.  SET writes the key, DEL deletes
\* it, whoever holds it.  QUIT is answered after every command sent before
\* it, and then this.client is null.
Answered ==
    /\ redis.call.at = "command"
    /\ IF redis.call.op = "disconnect"
       THEN /\ redis.state = "closing"
            /\ \A p \in Procs : pc[p] \notin {"acquire", "release"}
            /\ redis' = NoRedis
            /\ UNCHANGED lockState
       ELSE /\ redis.state = "open"
            /\ lockState' = IF redis.call.op = "set" THEN lockState \cup {redis.call.key}
                            ELSE IF redis.call.op = "delete" THEN del(redis.call.key)
                            ELSE lockState
            /\ redis' = [redis EXCEPT !.call = NoCall]
    /\ UNCHANGED faults
    /\ UNCHANGED <<balance, isActive, logs, rowLock, pc, req, result, srcRead, myLog,
                   txBal, txDone, stale, err, calls, responses, debits>>
    /\ UNCHANGED <<ivars, currency>>

\* The command of the method is rejected, by the cache or because the
\* client is closed (the connect() it waited for was rejected): nothing is
\* written; after a rejected quit() this.client keeps the closed client.
Rejected ==
    /\ redis.call # NoCall
    /\ IF redis.state = "closed"
       THEN UNCHANGED faults
       ELSE /\ redis.call.at = "command"
            /\ Answers
            /\ faults < MaxFaults
            /\ faults' = faults + 1
    /\ redis' = [state |-> IF redis.call.op = "disconnect" THEN "closed" ELSE redis.state,
                 call |-> NoCall]
    /\ UNCHANGED lockState
    /\ UNCHANGED <<balance, isActive, logs, rowLock, pc, req, result, srcRead, myLog,
                   txBal, txDone, stale, err, calls, responses, debits>>
    /\ UNCHANGED <<ivars, currency>>

NextCacheClients ==
    \/ Next
    \/ ConnectCall
    \/ \E k \in Keys : GetCall(k)
    \/ \E k \in Keys : SetCall(k)
    \/ \E k \in Keys : DeleteCall(k)
    \/ DisconnectCall
    \/ Connected
    \/ ConnectRejected
    \/ Answered
    \/ Rejected

SpecCacheClients == Init /\ [][NextCacheClients]_vars

\* ------------------------------------------------- progress of the calls
\* The system when the store and the cache answer every request: callers
\* take their steps, processes may die, and a lock key is deleted by the
\* cache when its time to live is over.
LiveRequests == {Request(1, 2, 20, "k2"), Request(2, 1, 10, "k1")}

\* Mutant of TimeToLive: the key is set without PX and never expires.
TimeToLiveNever(k) == FALSE /\ UNCHANGED vars

\* SET key '1' NX PX 10000: the cache deletes the key ten seconds after it
\* was set, whether or not its holder is still running.
TimeToLive(k) ==
    /\ k \in lockState
    /\ lockState' = lockState \ {k}
    /\ UNCHANGED <<balance, isActive, logs, rowLock, pc, req, result, srcRead, myLog,
                   txBal, txDone, stale, err, calls, faults, responses, debits>>
    /\ UNCHANGED <<ivars, redis, currency>>

\* The steps of caller p's call when nothing fails.
Steps(p) ==
    \/ Step1(p)
    \/ Connect(p)
    \/ AcquireLock(p)
    \/ Step3(p)
    \/ ValidateSource(p)
    \/ ValidateDestination(p)
    \/ CreateLog(p)
    \/ BeginTransaction(p)
    \/ \E n \in {1, 2} : LockWallet(p, n)
    \/ Debit(p)
    \/ Credit(p)
    \/ Complete(p)
    \/ Commit(p)
    \/ Fetch(p)
    \/ Rollback(p)
    \/ MarkFailed(p)
    \/ ReleaseLock(p)

NextLive ==
    \/ \E p \in Procs, r \in LiveRequests : Call(p, r)
    \/ \E p \in Procs : Steps(p)
    \/ Crash
    \/ \E k \in Keys : TimeToLive(k)

\* A call whose next step can be taken takes it (the event loop runs every
\* continuation that is ready, the store and the cache answer), and a key that
\* exists expires.
SpecLive ==
    /\ Init
    /\ [][NextLive]_vars
    /\ \A p \in Procs : WF_vars(Steps(p))
    /\ \A k \in Keys : WF_vars(TimeToLive(k))

\* ------------------------------------------------- deactivation of wallets
\* wallet.update({ isActive: false }), done outside the transfer service
\* (account management; the tests do it directly): an UPDATE of the wallet
\* row in a transaction of its own.  It waits while a transfer holds the row
\* FOR UPDATE, and every open snapshot is older than the row afterwards.
Deactivate(w) ==
    /\ isActive[w]
    /\ rowLock[w] = NoProc
    /\ isActive' = [isActive EXCEPT ![w] = FALSE]
    /\ stale' = [q \in Procs |-> IF InTransaction(q) THEN stale[q] \cup {w} ELSE stale[q]]
    /\ UNCHANGED <<balance, logs, lockState, rowLock, pc, req, result, srcRead, myLog,
                   txBal, txDone, err, calls, faults, responses, debits>>
    /\ UNCHANGED <<ivars, redis, currency>>

\* The transfers when nothing fails and wallets may be deactivated meanwhile.
NextDeactivate ==
    \/ \E p \in Procs, r \in LiveRequests : Call(p, r)
    \/ \E p \in Procs : Steps(p)
    \/ \E w \in ExistingWallets : Deactivate(w)

SpecDeactivate == Init /\ [][NextDeactivate]_vars

\* -------------------------------------------------------------- properties
InitialTotal == SumOver(InitialBalance, ExistingWallets)

\* Caller p takes a step of its own call that is not a fault or a crash.
OwnStep(p) == pc'[p] # pc[p] /\ pc'[p] # "crashed" /\ faults' = faults

\* The log rows of key k.
LogsOfKey(k) == {i \in LogIds : logs[i].idempotencyKey = k}

\* C1: the sum of all wallet balances is the initial sum in every reachable
\* state: a transfer never creates or destroys value.
C1_BalanceConserved == TotalBalance = InitialTotal

\* C2: a transfer of X between distinct active wallets that commits leaves the
\* source at its balance minus X, the destination at its balance plus X, and
\* its log COMPLETED with amount X.
C2_CompletedTransferExact ==
    [][\A p \in Procs :
        (pc[p] = "commit" /\ pc'[p] = "fetch") =>
            LET src == req[p].sourceWalletId
                dst == req[p].destinationWalletId
                X == req[p].amount IN
            /\ balance'[src] = balance[src] - X
            /\ balance'[dst] = balance[dst] + X
            /\ logs'[myLog[p]].status = COMPLETED
            /\ logs'[myLog[p]].amount = X]_vars

\* C3: there is at most one log row per idempotency key, the source is
\* debited at most once per key, and exactly once when the key's log is
\* COMPLETED.
C3_OneLogOneDebitPerKey ==
    \A k \in Keys :
        /\ Cardinality(LogsOfKey(k)) <= 1
        /\ debits[k] <= 1
        /\ \A i \in LogsOfKey(k) : logs[i].status = COMPLETED => debits[k] = 1

\* C3 witness: a second call with the key of a COMPLETED transfer has returned,
\* and the key was debited once.
C3_Witness ==
    \E r \in responses :
        /\ r.message = "Transaction already processed"
        /\ r.status = COMPLETED
        /\ debits[r.key] = 1
        /\ Cardinality(LogsOfKey(r.key)) = 1

\* C4: of concurrent calls with one key and identical parameters none is
\* rejected: a call that finds the lock of an identical call in flight still
\* returns a response, and all responses of a key carry one transactionId and
\* one reference.
C4_ConcurrentDuplicatesAllReturn ==
    [][\A p \in Procs :
        (/\ pc[p] = "acquire"
         /\ OwnStep(p)
         /\ faults = 0
         /\ \E q \in Procs \ {p} : req[q] = req[p])
        => /\ pc'[p] = "done" => result'[p].kind = "ok"
           /\ \A r1, r2 \in responses' :
                r1.key = r2.key => /\ r1.transactionId = r2.transactionId
                                   /\ r1.reference = r2.reference]_vars

\* C5: of two transfers with different keys from one source, each within the
\* balance and together above it, one completes and the other fails with an
\* insufficient-balance error, and the source ends at its initial balance minus
\* the completed amount.
C5_LoserFailsInsufficient ==
    \A p \in Procs : \A i \in LogIds :
        (/\ calls = 2
         /\ faults = 0
         /\ pc[p] = "release"
         /\ result[p].kind = "error"
         /\ logs[i].status = COMPLETED
         /\ logs[i].idempotencyKey # req[p].idempotencyKey
         /\ logs[i].sourceWalletId = req[p].sourceWalletId
         /\ logs[i].destinationWalletId = req[p].destinationWalletId
         /\ req[p].amount > 0
         /\ req[p].amount <= InitialBalance[req[p].sourceWalletId]
         /\ logs[i].amount <= InitialBalance[req[p].sourceWalletId]
         /\ req[p].amount + logs[i].amount > InitialBalance[req[p].sourceWalletId])
        => /\ result[p].message \in {ErrInsufficient, ErrInsufficientAtProcessing}
           /\ balance[req[p].sourceWalletId] =
                InitialBalance[req[p].sourceWalletId] - logs[i].amount

\* C6: a call with the key of a COMPLETED transfer returns that log's id,
\* COMPLETED and its reference, as the call that executed the transfer did, and
\* changes no balance and no log row.
C6_ReplayOfCompleted ==
    [][\A p \in Procs :
        (/\ pc[p] = "check1"
         /\ OwnStep(p)
         /\ \E i \in LogIds : /\ logs[i].idempotencyKey = req[p].idempotencyKey
                              /\ logs[i].status = COMPLETED)
        => LET i == CHOOSE j \in LogIds : logs[j].idempotencyKey = req[p].idempotencyKey IN
           /\ pc'[p] = "done"
           /\ result'[p].kind = "ok"
           /\ result'[p].transactionId = i
           /\ result'[p].status = COMPLETED
           /\ result'[p].reference = logs[i].reference
           /\ balance' = balance
           /\ logs' = logs
           /\ \A r \in responses :
                (r.key = req[p].idempotencyKey /\ r.message = "Transfer completed successfully")
                => /\ r.transactionId = result'[p].transactionId
                   /\ r.status = result'[p].status
                   /\ r.reference = result'[p].reference]_vars

\* C6 witness: the executing call and a replay of its key have both returned.
C6_Witness ==
    \E r1, r2 \in responses :
        /\ r1.key = r2.key
        /\ r1.message = "Transfer completed successfully"
        /\ r2.message = "Transaction already processed"
        /\ r2.status = COMPLETED

\* The request of p fails validateTransfer where p stands.
Invalid(p) ==
    LET r == req[p] IN
    \/ /\ pc[p] = "validate1"
       /\ \/ r.sourceWalletId = r.destinationWalletId
          \/ r.amount <= 0
          \/ r.sourceWalletId \notin ExistingWallets
          \/ ~isActive[r.sourceWalletId]
    \/ /\ pc[p] = "validate2"
       /\ \/ r.destinationWalletId \notin ExistingWallets
          \/ ~isActive[r.destinationWalletId]
          \/ srcRead[p] < r.amount

\* C7: a call whose validation fails ends with an error, creates no log row
\* and changes no balance.
C7_ValidationFailure ==
    [][\A p \in Procs :
        /\ (Invalid(p) /\ OwnStep(p))
            => /\ pc'[p] = IF Sends THEN "release" ELSE "done"
               /\ result'[p].kind = "error"
               /\ result'[p].message \in ValidationErrors
               /\ myLog'[p] = 0
               /\ logs' = logs
               /\ balance' = balance
        /\ (/\ pc[p] = "release"
            /\ result[p].kind = "error"
            /\ result[p].message \in ValidationErrors
            /\ pc'[p] # pc[p])
            => /\ pc'[p] \in {"done", "crashed"}
               /\ pc'[p] = "done" => result'[p] = result[p]
               /\ logs' = logs
               /\ balance' = balance]_vars

\* C7 witness: a call has been rejected for each kind of reason: the wallets,
\* the amount, the balance.
C7_Witness ==
    /\ \E p \in Procs : pc[p] = "done" /\ result[p].kind = "error"
                        /\ result[p].message = ErrInsufficient
    /\ \E p \in Procs : pc[p] = "done" /\ result[p].kind = "error"
                        /\ result[p].message \in {ErrSameWallet, ErrAmount,
                              ErrSourceNotFound, ErrSourceInactive,
                              ErrDestinationNotFound, ErrDestinationInactive}

\* Caller p is leaving processTransfer with an error raised inside the
\* transaction (a statement of the unit, or the commit).
FailedInUnit(p) ==
    /\ pc[p] = "release"
    /\ result[p].kind = "error"
    /\ myLog[p] # 0
    /\ (err[p] # "" \/ result[p].message = ErrFinished)

\* C8: a transfer that fails inside the atomic unit has committed no balance
\* change and its log is FAILED with a non-empty error message.
C8_FailedInUnitMarkedFailed ==
    \A p \in Procs :
        FailedInUnit(p) =>
            /\ debits[req[p].idempotencyKey] = 0
            /\ logs[myLog[p]].status = FAILED
            /\ logs[myLog[p]].errorMessage # ""

\* C9: every wallet balance is >= 0 in every reachable state.
C9_BalanceNonNegative == \A w \in ExistingWallets : balance[w] >= 0

\* C9 witness: a transfer was refused inside the transaction, after another
\* transfer had debited the same source.
C9_Witness ==
    \E i, j \in LogIds :
        /\ logs[i].status = COMPLETED
        /\ logs[j].status = FAILED
        /\ logs[j].errorMessage = ErrInsufficientAtProcessing
        /\ logs[i].sourceWalletId = logs[j].sourceWalletId

\* C10: the status of a log only changes from PENDING, to COMPLETED, FAILED or
\* REVERSED; a COMPLETED or REVERSED log never changes status again.
C10_StatusTransitions ==
    [][\A i \in LogIds :
        logs'[i].status # logs[i].status =>
            /\ logs[i].status = PENDING
            /\ logs'[i].status \in {COMPLETED, FAILED, REVERSED}]_vars

\* C10 witness: one log has been COMPLETED and another FAILED.
C10_Witness ==
    \E i, j \in LogIds : logs[i].status = COMPLETED /\ logs[j].status = FAILED

\* C11: a call that finds a log for its key in step 1, whatever the status of
\* the log, returns the id, the current status and the reference of that log,
\* and takes no lock, creates no log and changes no balance.
C11_ExistingLogReturnedVerbatim ==
    [][\A p \in Procs :
        (/\ pc[p] = "check1"
         /\ OwnStep(p)
         /\ LogsOfKey(req[p].idempotencyKey) # {})
        => LET i == CHOOSE j \in LogIds : logs[j].idempotencyKey = req[p].idempotencyKey IN
           /\ pc'[p] = "done"
           /\ result'[p].kind = "ok"
           /\ result'[p].transactionId = i
           /\ result'[p].status = logs[i].status
           /\ result'[p].reference = logs[i].reference
           /\ lockState' = lockState
           /\ logs' = logs
           /\ balance' = balance]_vars

\* C11 witness: a call has returned a PENDING log of its key while the call
\* that created the log is still inside its transaction, holding the lock.
C11_Witness ==
    \E p, q \in Procs :
        /\ faults = 0
        /\ pc[p] = "done"
        /\ result[p].kind = "ok"
        /\ result[p].status = PENDING
        /\ result[p].message = "Transaction already processed"
        /\ InTransaction(q)
        /\ logs[myLog[q]].reference = result[p].reference
        /\ logs[myLog[q]].idempotencyKey \in lockState

\* C12: a call that finds the lock of its key busy fails at once with the
\* contention error, creates no log, changes no balance and leaves the
\* holder's lock in place; the error reaches the client as a retryable
\* condition, with a status no permanent failure (validation, business rule)
\* is answered with.
C12_BusyFailsFastWithoutEffect ==
    [][\A p \in Procs :
        (/\ pc[p] = "acquire"
         /\ OwnStep(p)
         /\ req[p].idempotencyKey \in lockState)
        => /\ pc'[p] = "done"
           /\ result'[p] = Failure(ErrBusy)
           /\ logs' = logs
           /\ balance' = balance
           /\ lockState' = lockState
           /\ \A e \in ValidationErrors :
                HttpStatus(result'[p]) # HttpStatus(Failure(e))]_vars

\* C13: a call that has passed both lookups and whose insert of the log meets
\* the row another call inserted for the same key re-reads that row and
\* returns its id and reference instead of ending with an error.
C13_UniqueViolationIsIdempotentHit ==
    [][\A p \in Procs :
        (/\ pc[p] = "create"
         /\ OwnStep(p)
         /\ AmountValid(req[p].amount)
         /\ LogsOfKey(req[p].idempotencyKey) # {})
        => LET i == CHOOSE j \in LogIds : logs[j].idempotencyKey = req[p].idempotencyKey IN
           /\ result'[p].kind = "ok"
           /\ result'[p].transactionId = i
           /\ result'[p].reference = logs[i].reference]_vars

\* C14: when the lock stops nothing, the balances still sum to the initial
\* total, no balance is negative, no key has two log rows and no key is
\* debited twice.
C14_SafeWithoutLock ==
    /\ TotalBalance = InitialTotal
    /\ \A w \in ExistingWallets : balance[w] >= 0
    /\ \A k \in Keys : Cardinality(LogsOfKey(k)) <= 1 /\ debits[k] <= 1

\* No call is in progress: every caller is idle, has returned, or is dead.
Quiescent == \A p \in Procs : pc[p] \in {"idle", "done", "crashed"}

\* C15: no log stays PENDING: once the calls in progress have ended, by a
\* return, an error or a crash, every log is COMPLETED, FAILED or REVERSED.
C15_NoLogStaysPending ==
    Quiescent => \A i \in LogIds : logs[i].status # PENDING

\* C17: for every response transfer has returned, the lookup by its key and
\* the lookup by its reference both give the one row whose id is the returned
\* transactionId; a key or a reference no row has gives null.
C17_LookupsAgreeWithResponses ==
    /\ \A r \in responses :
        /\ getTransactionByIdempotencyKey(r.key) = r.transactionId
        /\ getTransactionByReference(r.reference) = r.transactionId
        /\ Cardinality({i \in LogIds : logs[i].idempotencyKey = r.key
                                       \/ logs[i].reference = r.reference}) = 1
    /\ \A k \in Keys : LogsOfKey(k) = {} => getTransactionByIdempotencyKey(k) = 0
    /\ \A ref \in Refs :
        (\A i \in LogIds : logs[i].reference # ref) => getTransactionByReference(ref) = 0

\* C17 witness: two transfers have returned with different keys and
\* references, and some reference is still unknown.
C17_Witness ==
    /\ \E r1, r2 \in responses :
        /\ r1.key # r2.key
        /\ r1.message = "Transfer completed successfully"
        /\ r2.message = "Transfer completed successfully"
        /\ getTransactionByReference(r1.reference) # getTransactionByReference(r2.reference)
    /\ \E ref \in Refs : getTransactionByReference(ref) = 0

\* C18: an account and date have at most one interest log; the account is
\* only credited together with the insertion of the first log of its date;
\* a call that finds the log of its account and date fails with 'Interest
\* already calculated' and changes no account and no log.
C18_InterestOncePerAccountAndDate ==
    /\ [](\A a \in AccountIds, d \in Dates : Cardinality(LogsOfAccountDate(a, d)) <= 1)
    /\ [][/\ \A a \in ExistingAccounts :
                accounts'[a] # accounts[a] =>
                    /\ Len(interestLogs') = Len(interestLogs) + 1
                    /\ interestLogs'[Len(interestLogs')].accountId = a
                    /\ LogsOfAccountDate(a, interestLogs'[Len(interestLogs')].calculationDate) = {}
          /\ \A w \in Workers :
                (/\ job[w].pc = "existing"
                 /\ job'[w] # job[w]
                 /\ LogsOfAccountDate(job[w].accountId, job[w].calculationDate) # {})
                => /\ job'[w].pc = "done"
                   /\ job'[w].error = ErrAlreadyCalculated
                   /\ accounts' = accounts
                   /\ interestLogs' = interestLogs]_vars

\* C18 witness: of two concurrent calls for one account and date one has
\* committed and the other was refused by the store, and a later call for the
\* same account and date was refused by the check.
C18_Witness ==
    \E w, v \in Workers :
        /\ job[w].pc = "done" /\ job[w].error = ErrAlreadyCalculated
        /\ job[v].pc = "done" /\ job[v].error = ErrUnique
        /\ job[w].accountId = job[v].accountId
        /\ job[w].calculationDate = job[v].calculationDate
        /\ Cardinality(LogsOfAccountDate(job[w].accountId, job[w].calculationDate)) = 1

\* C19: a call for an account that does not exist fails with 'not found', a
\* call for an inactive account with 'inactive'; neither creates an interest
\* log nor changes the balance, totalInterestEarned or lastInterestDate of any
\* account, and no log of such an account ever exists.
C19_MissingOrInactiveAccountRejected ==
    /\ [](\A i \in InterestLogIds :
            /\ interestLogs[i].accountId \in ExistingAccounts
            /\ accounts[interestLogs[i].accountId].isActive)
    /\ [](\A a \in ExistingAccounts : ~accounts[a].isActive => accounts[a] = InitialAccounts[a])
    /\ [][\A w \in Workers :
            (/\ job[w].pc = "find"
             /\ job'[w] # job[w]
             /\ \/ job[w].accountId \notin ExistingAccounts
                \/ ~accounts[job[w].accountId].isActive)
            => /\ job'[w].pc = "done"
               /\ job'[w].error = (IF job[w].accountId \notin ExistingAccounts
                                   THEN ErrAccountNotFound ELSE ErrAccountInactive)
               /\ accounts' = accounts
               /\ interestLogs' = interestLogs]_vars

\* C19 witness: one call was refused for a missing account and one for an
\* inactive account, after interest was credited to an active account.
C19_Witness ==
    /\ \E w, v \in Workers :
        /\ job[w].pc = "done" /\ job[w].error = ErrAccountNotFound
        /\ job[v].pc = "done" /\ job[v].error = ErrAccountInactive
    /\ Len(interestLogs) = 1

\* The leap years from 1896 to 2104 by the calendar: every fourth year but
\* 1900 and 2100.
LeapYears1896To2104 == {1896 + 4 * n : n \in 0..52} \ {1900, 2100}

\* C20: for every year from 1896 to 2104 daysInYear is 366 exactly in the
\* leap years (divisible by 4 and not by 100, or divisible by 400) and 365
\* otherwise, and every interest log carries the daysInYear of the year of its
\* calculation date: 366 for 2024 and 2000, 365 for 2023 and 1900.
C20_DaysInYear ==
    /\ \A y \in 1896..2104 :
        /\ DaysInYear(y) = 366 <=> ((y % 4 = 0 /\ y % 100 # 0) \/ y % 400 = 0)
        /\ DaysInYear(y) = 366 <=> y \in LeapYears1896To2104
        /\ DaysInYear(y) \in {365, 366}
    /\ \A i \in InterestLogIds :
        LET y == interestLogs[i].calculationDate \div 1000 IN
        /\ y \in {2000, 2024} => interestLogs[i].daysInYear = 366
        /\ y \in {1900, 2023} => interestLogs[i].daysInYear = 365

\* C20 witness: interest was calculated for dates in 1900, 2000 and 2024.
C20_Witness ==
    \E i, j, k \in InterestLogIds :
        /\ interestLogs[i].calculationDate \div 1000 = 1900
        /\ interestLogs[j].calculationDate \div 1000 = 2000
        /\ interestLogs[k].calculationDate \div 1000 = 2024

\* C21: the log row of a transfer exists, in status PENDING, from before the
\* first statement of its transaction until its commit: a caller that has
\* loaded or changed a wallet in its transaction, and every step that changes
\* a committed balance, has such a row for its key, and no key without a log
\* row was ever debited.
C21_PendingLogBeforeBalanceChange ==
    /\ [](\A p \in Procs :
            (InTransaction(p) \/ txBal[p] # NoTxBal) =>
                /\ myLog[p] \in LogIds
                /\ logs[myLog[p]].status = PENDING
                /\ logs[myLog[p]].idempotencyKey = req[p].idempotencyKey)
    /\ [](\A k \in Keys : debits[k] > 0 => LogsOfKey(k) # {})
    /\ [][balance' # balance =>
            \E p \in Procs :
                /\ pc[p] = "commit"
                /\ myLog[p] \in LogIds
                /\ logs[myLog[p]].status = PENDING
                /\ logs[myLog[p]].idempotencyKey = req[p].idempotencyKey
                /\ debits'[req[p].idempotencyKey] = debits[req[p].idempotencyKey] + 1]_vars

\* C21 witness: one transfer has committed its balances while the other, with
\* its log row PENDING, has debited the source inside its transaction.
C21_Witness ==
    \E p, q \in Procs :
        /\ pc[p] = "fetch"
        /\ debits[req[p].idempotencyKey] = 1
        /\ pc[q] = "credit"
        /\ logs[myLog[q]].status = PENDING
        /\ txBal[q][req[q].sourceWalletId] # balance[req[q].sourceWalletId]

\* The wallets whose committed balance changes in a step.
ChangedWallets == {w \in ExistingWallets : balance'[w] # balance[w]}

\* C22: in the committed state, which is all other transactions and lookups
\* see, the debit, the credit and the change of the log from PENDING to
\* COMPLETED happen in one step or not at all: a step that completes a log
\* changes the balances of exactly its source and its destination, and a step
\* that changes a balance completes exactly one log, that of the two wallets.
C22_DebitCreditCompletedTogether ==
    [][/\ \A i \in LogIds :
            (logs[i].status # COMPLETED /\ logs'[i].status = COMPLETED) =>
                /\ logs[i].status = PENDING
                /\ ChangedWallets = {logs[i].sourceWalletId, logs[i].destinationWalletId}
       /\ ChangedWallets # {} =>
            \E i \in LogIds :
                /\ logs[i].status = PENDING
                /\ logs'[i].status = COMPLETED
                /\ ChangedWallets = {logs[i].sourceWalletId, logs[i].destinationWalletId}
                /\ \A j \in LogIds \ {i} : logs'[j] = logs[j]]_vars

\* C22 witness: a lookup has returned the log as PENDING while the transfer
\* had written the debit, the credit and COMPLETED inside its open
\* transaction; the committed balances are still the initial ones.
C22_Witness ==
    \E p, q \in Procs :
        /\ pc[q] = "commit"
        /\ txDone[q]
        /\ txBal[q][req[q].sourceWalletId] # balance[req[q].sourceWalletId]
        /\ txBal[q][req[q].destinationWalletId] # balance[req[q].destinationWalletId]
        /\ balance = InitialBalance
        /\ logs[myLog[q]].status = PENDING
        /\ pc[p] = "done"
        /\ result[p].kind = "ok"
        /\ result[p].transactionId = myLog[q]
        /\ result[p].status = PENDING

\* Caller p waits for a wallet row that caller q has locked.
WaitsFor(p, q) ==
    /\ pc[p] \in {"lock1", "lock2"}
    /\ rowLock[SortedWalletIds(req[p])[IF pc[p] = "lock1" THEN 1 ELSE 2]] = q

\* C23: a caller locks the wallet with the smaller id first, whichever of the
\* two is the source: it never holds the larger of its wallets without the
\* smaller, and no two callers each wait for a row the other has locked.
C23_RowLocksAscendingNoCycle ==
    /\ \A p \in Procs : \A w \in ExistingWallets :
        rowLock[w] = p =>
            /\ w \in {req[p].sourceWalletId, req[p].destinationWalletId}
            /\ \A v \in {req[p].sourceWalletId, req[p].destinationWalletId} :
                v < w => rowLock[v] = p
    /\ \A p \in Procs :
        pc[p] = "lock2" =>
            LET w == SortedWalletIds(req[p]) IN w[1] < w[2] /\ rowLock[w[1]] = p
    /\ \A p, q \in Procs : ~(p # q /\ WaitsFor(p, q) /\ WaitsFor(q, p))

\* C23 witness: of two transfers between wallets 1 and 2 in opposite
\* directions, the one from 2 to 1 waits for wallet 1, locked by the one
\* from 1 to 2, which is about to lock wallet 2.
C23_Witness ==
    \E p, q \in Procs :
        /\ req[p].sourceWalletId = 2 /\ req[p].destinationWalletId = 1
        /\ req[q].sourceWalletId = 1 /\ req[q].destinationWalletId = 2
        /\ WaitsFor(p, q)
        /\ pc[p] = "lock1"
        /\ pc[q] = "lock2"

\* Caller p is in the finally block with the answer of the second lookup.
RecheckHit(p) ==
    /\ pc[p] = "release"
    /\ result[p].kind = "ok"
    /\ result[p].message = "Transaction already processed"

\* C24: a caller that has the lock and whose key has got a log since its
\* first lookup returns the id, the status and the reference of that log,
\* creates no log and changes no balance, and deletes the lock key before it
\* returns that answer.
C24_RecheckUnderLockReturnsExisting ==
    [][\A p \in Procs :
        /\ (/\ pc[p] = "check2"
            /\ OwnStep(p)
            /\ LogsOfKey(req[p].idempotencyKey) # {})
            => LET i == CHOOSE j \in LogIds : logs[j].idempotencyKey = req[p].idempotencyKey IN
               /\ RecheckHit(p)'
               /\ result'[p].transactionId = i
               /\ result'[p].status = logs[i].status
               /\ result'[p].reference = logs[i].reference
               /\ myLog'[p] = 0
               /\ logs' = logs
               /\ balance' = balance
        /\ (RecheckHit(p) /\ OwnStep(p))
            => /\ pc'[p] = "done"
               /\ result'[p] = result[p]
               /\ req[p].idempotencyKey \notin lockState'
               /\ Cardinality(LogsOfKey(req[p].idempotencyKey)) = 1
               /\ logs' = logs
               /\ balance' = balance]_vars

\* C24 witness: a caller found no log in step 1, another call then executed
\* the transfer of the key and released the lock, and the first caller, now
\* holding the lock, has found the COMPLETED log in its second lookup.
C24_Witness ==
    \E p \in Procs :
        /\ faults = 0
        /\ RecheckHit(p)
        /\ result[p].status = COMPLETED
        /\ req[p].idempotencyKey \in lockState
        /\ debits[req[p].idempotencyKey] = 1
        /\ \E r \in responses :
            /\ r.key = req[p].idempotencyKey
            /\ r.message = "Transfer completed successfully"
            /\ r.transactionId = result[p].transactionId

\* Caller p is inside the try block of transfer(), or in its finally block:
\* it was granted the lock.
InTryBlock(p) ==
    pc[p] \in {"check2", "validate1", "validate2", "create", "begin", "lock1", "lock2",
               "debit", "credit", "complete", "commit", "fetch", "rollback",
               "markFailed", "release"}

\* C25: a call that was granted the lock only ends through the finally
\* block, whatever it returns or throws, and when it ends the lock key of its
\* request is gone.
C25_LockReleasedOnEveryExit ==
    [][\A p \in Procs :
        (InTryBlock(p) /\ pc'[p] \in {"idle", "done"})
            => /\ pc[p] = "release"
               /\ result'[p] = result[p]
               /\ req[p].idempotencyKey \notin lockState']_vars

\* The callers that were granted the lock of key k and have not ended.
Holders(k) == {p \in Procs : InTryBlock(p) /\ req[p].idempotencyKey = k}

\* C26: an acquire is one step of the cache: the call that asks for a key
\* that does not exist is granted, and then the key exists; on a key that
\* exists it is answered busy and changes nothing.  So of the calls that ask
\* for a free key one is granted and the others are answered busy.
C26_AcquireIsAtomicTestAndSet ==
    [][\A p \in Procs :
        (pc[p] = "acquire" /\ pc'[p] \notin {"acquire", "crashed"}) =>
            LET k == req[p].idempotencyKey IN
            /\ k \notin lockState =>
                /\ pc'[p] = "check2"
                /\ lockState' = lockState \cup {k}
                /\ Holders(k)' = Holders(k) \cup {p}
            /\ k \in lockState =>
                /\ pc'[p] = "done"
                /\ result'[p] = Failure(ErrBusy)
                /\ lockState' = lockState]_vars

\* C27: a lock key left by a holder that died does not stay: the key expires,
\* so the next acquire of the key is granted and a later call with the key is
\* not answered busy.
C27_DeadHoldersLockExpires ==
    \A k \in Keys : (k \in lockState /\ Holders(k) = {}) ~> acquireLock(k)

\* C27 witness: a caller died holding the lock of its key; no call is
\* running with the key and the key still exists.
C27_Witness ==
    \E p \in Procs : \E k \in Keys :
        /\ pc[p] = "crashed"
        /\ k \in lockState
        /\ Holders(k) = {}
        /\ \A q \in Procs : req[q].idempotencyKey # k

C29_CacheFailureIsNotBusy ==
    [][\A p \in Procs :
        (pc[p] = "acquire" /\ pc'[p] = "done" /\ faults' # faults)
        => /\ result'[p].kind = "error"
           /\ result'[p].message # ErrBusy
           /\ logs' = logs
           /\ balance' = balance]_vars

\* C30: every log row has a source different from its destination and an
\* amount above zero, and its two wallets are rows of `wallets`.
C30_LogRowsWellFormed ==
    \A i \in LogIds :
        /\ logs[i].sourceWalletId # logs[i].destinationWalletId
        /\ logs[i].amount > 0
        /\ logs[i].sourceWalletId \in ExistingWallets
        /\ logs[i].destinationWalletId \in ExistingWallets

\* C30 witness: a log row exists, and a call was stopped by the validation
\* of the amount column after validateTransfer had let its amount through.
C30_Witness ==
    /\ logs # <<>>
    /\ \E p \in Procs : pc[p] = "done" /\ result[p] = Failure(ErrValidationMin)

\* What the COMPLETED rows among the first n rows of the log add to wallet w:
\* the amounts it received minus the amounts it sent.
RECURSIVE CompletedNet(_, _)
CompletedNet(w, n) ==
    IF n = 0 THEN 0
    ELSE CompletedNet(w, n - 1)
         + (IF logs[n].status = COMPLETED /\ logs[n].destinationWalletId = w
            THEN logs[n].amount ELSE 0)
         - (IF logs[n].status = COMPLETED /\ logs[n].sourceWalletId = w
            THEN logs[n].amount ELSE 0)

\* C31: the balance of every wallet is its initial balance plus the amounts
\* of the COMPLETED logs that name it as destination minus the amounts of the
\* COMPLETED logs that name it as source; PENDING and FAILED logs count for
\* nothing.
C31_BalanceIsSumOfCompletedLogs ==
    \A w \in ExistingWallets :
        balance[w] = InitialBalance[w] + CompletedNet(w, Len(logs))

\* C32: when a response says COMPLETED, whether it comes from the call that
\* executed the transfer or from a replay, the debit and the credit of its
\* key are committed: the row it names is COMPLETED in the store and the key
\* was debited, once.
C32_CompletedResponseMeansCommitted ==
    /\ \A r \in responses :
        r.status = COMPLETED =>
            /\ logs[r.transactionId].status = COMPLETED
            /\ logs[r.transactionId].idempotencyKey = r.key
            /\ debits[r.key] = 1
    /\ \A p \in Procs :
        (pc[p] = "release" /\ result[p].kind = "ok" /\ result[p].status = COMPLETED) =>
            /\ logs[result[p].transactionId].status = COMPLETED
            /\ debits[req[p].idempotencyKey] = 1

\* C32 witness: a replay has returned PENDING for a key and, after the
\* commit, the executing call has returned COMPLETED for the same key.
C32_Witness ==
    \E r1, r2 \in responses :
        /\ r1.key = r2.key
        /\ r1.message = "Transaction already processed"
        /\ r1.status = PENDING
        /\ r2.message = "Transfer completed successfully"
        /\ r2.status = COMPLETED
        /\ balance # InitialBalance

\* C33: a call that ends with an error has committed nothing: the log row it
\* created, if any, is not COMPLETED, whatever step reported the failure.
C33_ErrorMeansNoEffect ==
    \A p \in Procs :
        (pc[p] = "release" /\ result[p].kind = "error" /\ myLog[p] # 0) =>
            logs[myLog[p]].status # COMPLETED

\* C34: a key has at most one caller between the grant of its lock and the
\* release, and the release of one caller never deletes the key while
\* another caller holds it, even when a holder outlives the time to live of
\* its key.
C34_OneHolderPerKey ==
    /\ [](\A k \in Keys : Cardinality(Holders(k)) <= 1)
    /\ [][\A p \in Procs :
            (pc[p] = "release" /\ pc'[p] = "done"
             /\ req[p].idempotencyKey \in lockState
             /\ req[p].idempotencyKey \notin lockState')
            => Holders(req[p].idempotencyKey) = {p}]_vars

\* C35: a commit only changes the balance of wallets that are active when it
\* is applied, also when a wallet was deactivated after the call's
\* validation.
C35_NoCommitOnInactiveWallet ==
    [][\A w \in ExistingWallets : balance'[w] # balance[w] => isActive[w]]_vars

\* C36: a step of a call for key K from A to B changes the balance of no
\* wallet but A and B, the active flag and the currency of no wallet, and no
\* log row but the
\* row of K that the call created; rows are only added, with the key of a
\* call, and never removed.
C36_TransferFrame ==
    [][/\ isActive' = isActive
       /\ currency' = currency
       /\ Len(logs') >= Len(logs)
       /\ \A w \in ChangedWallets :
            \E p \in Procs :
                /\ pc[p] = "commit" /\ pc'[p] # pc[p]
                /\ w \in {req[p].sourceWalletId, req[p].destinationWalletId}
                /\ ChangedWallets \subseteq {req[p].sourceWalletId, req[p].destinationWalletId}
       /\ \A i \in LogIds :
            logs'[i] # logs[i] =>
                \E p \in Procs :
                    /\ pc'[p] # pc[p]
                    /\ myLog[p] = i
                    /\ logs[i].idempotencyKey = req[p].idempotencyKey
                    /\ \A j \in LogIds \ {i} : logs'[j] = logs[j]
       /\ Len(logs') > Len(logs) =>
            \E p \in Procs :
                /\ pc[p] = "create"
                /\ Len(logs') = Len(logs) + 1
                /\ logs'[Len(logs')].idempotencyKey = req[p].idempotencyKey
                /\ \A j \in LogIds : logs'[j] = logs[j]]_vars

\* C36 witness: one call has committed its transfer and another call, with
\* another key, was refused inside its transaction; the row of each carries
\* its own outcome and wallet 3 has its initial balance.
C36_Witness ==
    \E i, j \in LogIds :
        /\ logs[i].idempotencyKey # logs[j].idempotencyKey
        /\ logs[i].status = COMPLETED /\ logs[i].errorMessage = ""
        /\ logs[j].status = FAILED /\ logs[j].errorMessage # ""
        /\ balance[3] = InitialBalance[3]
        /\ isActive = InitialActive
        /\ currency = InitialCurrency
        /\ \A p \in Procs : pc[p] = "done"

\* The interest of the first n interest logs that belong to account a.
RECURSIVE InterestSum(_, _)
InterestSum(a, n) ==
    IF n = 0 THEN 0
    ELSE InterestSum(a, n - 1)
         + (IF interestLogs[n].accountId = a THEN interestLogs[n].interestAmount ELSE 0)

\* C37: the balance of every account is its initial balance plus the
\* interest of all its interest logs, and its totalInterestEarned is the sum
\* of that interest: no interest that was logged is lost or overwritten.
C37_NoInterestLost ==
    \A a \in ExistingAccounts :
        /\ accounts[a].balance
            = InitialAccounts[a].balance + InterestSum(a, Len(interestLogs))
        /\ accounts[a].totalInterestEarned
            = InitialAccounts[a].totalInterestEarned + InterestSum(a, Len(interestLogs))

\* The accounts of the batch whose call has ended, with and without a result.
Collected == Range(batch.results) \cup Range(batch.errors)

\* The bookkeeping of the batch in one state: the accounts attempted are a
\* prefix of what findAll gave, without repetition; every call that ended is
\* in the results or in the errors and never in both; an account in the
\* results has its interest log for the date; a batch that has returned has
\* attempted every account findAll gave.
BatchBookkeeping ==
    /\ \A i, j \in 1..Len(batch.attempted) :
          batch.attempted[i] = batch.attempted[j] => i = j
    /\ batch.attempted = SubSeq(batch.found, 1, Len(batch.attempted))
    /\ Len(batch.results) + Len(batch.errors) = Cardinality(Collected)
    /\ batch.pc \in {"loop", "returned"} => Collected = Range(batch.attempted)
    /\ batch.pc = "await" =>
          Collected = Range(batch.attempted) \ {job[BatchWorker].accountId}
    /\ \A a \in Range(batch.results) :
          LogsOfAccountDate(a, batch.calculationDate) # {}
    /\ batch.pc = "returned" =>
          /\ batch.attempted = batch.found
          /\ batch.todo = <<>>

\* The steps of the call and of its findAll: the call attempts nothing
\* before the findAll is answered, and what the findAll gives is every
\* account that is active at the moment of the answer, each once, and no
\* other account.
BatchFindsTheActive ==
    /\ batch.pc = "idle" /\ batch'.pc # "idle" =>
        /\ batch'.pc = "findAll"
        /\ batch'.found = <<>> /\ batch'.attempted = <<>>
    /\ batch.pc = "findAll" /\ batch'.pc # "findAll" =>
        /\ batch'.pc = "loop"
        /\ Range(batch'.found) = {a \in ExistingAccounts : accounts[a].isActive}
        /\ Len(batch'.found) = Cardinality(Range(batch'.found))
        /\ batch'.todo = batch'.found
        /\ batch'.attempted = <<>>

\* What findAll gave stays what the batch works on, whatever becomes of the
\* accounts meanwhile; the call for an account that is found inactive by then
\* ends with the error of an inactive account.
BatchKeepsWhatItFound ==
    /\ batch.pc \notin {"idle", "findAll"} => batch'.found = batch.found
    /\ (/\ job[BatchWorker].pc = "find"
        /\ job'[BatchWorker].pc # "find"
        /\ ~accounts[job[BatchWorker].accountId].isActive)
        => /\ job'[BatchWorker].pc = "done"
           /\ job'[BatchWorker].error = ErrAccountInactive

\* The step that ends the wait for one call: the loop goes on with the
\* remaining accounts, and the account goes to the results exactly when its
\* call ended without an error.
BatchGoesOn ==
    batch.pc = "await" /\ batch'.pc # "await" =>
        /\ batch'.pc = "loop"
        /\ batch'.todo = Tail(batch.todo)
        /\ IF job[BatchWorker].error = ""
           THEN /\ batch'.results = Append(batch.results, job[BatchWorker].accountId)
                /\ batch'.errors = batch.errors
           ELSE /\ batch'.results = batch.results
                /\ batch'.errors = Append(batch.errors, job[BatchWorker].accountId)

====
